---- MODULE Spec2Model ----
(***************************************************************************)
(* Commit ancestry traversal of git-traverse (src/git-traverse/src/        *)
(* commit.rs): the Ancestors iterator, its State and its two sorting       *)
(* disciplines.                                                            *)
(*                                                                         *)
(* The object database behind the injected `find` callback and the         *)
(* injected `predicate` are inputs.  Both are pure lookups: the model      *)
(* fixes the answer for an id the first time the traversal asks for it     *)
(* (absent / commits / dates for find, accepted / rejected for the         *)
(* predicate) and gives the same answer ever after.  Object ids are        *)
(* opaque to the traversal (only equality is used), so ids are numbered    *)
(* in the order in which they are first mentioned (by the tips, then by    *)
(* the parent tokens of decoded commits).  The input is bounded by its     *)
(* size: the number of tips plus the number of parent and Err tokens of    *)
(* the commits that get decoded.                                           *)
(*                                                                         *)
(* Linked object store of git-odb (src/git-odb/src/store/linked/find.rs):  *)
(* contains and try_find_cached over an ordered list of backends.  What    *)
(* each backend holds of the id looked up, and whether reading it          *)
(* succeeds, is the input; the store is opened once and never changes.     *)
(*                                                                         *)
(* Pack index codec of git-odb (src/git-odb/src/pack/index.rs): File::at   *)
(* and File::iter over the bytes of an index file.  Files are byte         *)
(* sequences; 64-bit offsets are kept as their 8 big-endian bytes.         *)
(*                                                                         *)
(* Release tool (src/etc/utils/src/command/release.rs):                    *)
(* release_depth_first, from the list of crates to publish to the          *)
(* manifest commit, the publish attempts and the tag of each crate.  The   *)
(* workspace (cargo metadata) is an input, revealed package by package as  *)
(* the tool looks it up; what git and cargo answer is an input too.        *)
(*                                                                         *)
(* Pack explosion (src/gitoxide-core/src/pack/explode.rs):                 *)
(* pack_or_pack_index, from opening the bundle over the traversal that     *)
(* writes each object to the removal of the pack's files.                  *)
(***************************************************************************)
EXTENDS Integers, Sequences, FiniteSets, TLC

\* ------------------------------------------------------------- bounds
\* The size of the input: tips handed in plus parent/Err tokens of the commits
\* decoded.
MaxInput == 4
\* Committer times range over 1..MaxDate.
MaxDate == 2
\* The size of the input of a traversal that is repeated on its used State.
MaxReuseInput == 3
\* Backends (compound stores) in a linked store.
MaxDbs == 2
\* Pack bundles in one backend.
MaxBundles == 2
\* Objects in a pack index file.
MaxObjects == 2
\* The size of the input of a traversal that is followed to its end.
MaxDrainInput == 3
\* The size of a release: crate names requested plus dependencies listed by
\* the packages looked up.
MaxCrateInput == 4

Ids == 1..MaxInput

VARIABLES
    stage,      \* "new": no Ancestors built; "built": built, next() not yet called; "iter"
    tips,       \* the tips handed to Ancestors::filtered
    mode,       \* Ancestors.mode: "All" | "First"
    sorting,    \* Ancestors.sorting: "GraphOrder" | "ByCommitterDate"
    state,      \* ancestors::State: [next, buf, seen]
    absent,     \* ids for which find returned None
    commits,    \* id -> the tree/parent tokens find's iterator yielded for it
    dates,      \* id -> committer date of a present commit (0: it has no committer)
    accepted,   \* ids the predicate was called on and returned true
    rejected,   \* ids the predicate was called on and returned false
    last,       \* what the latest next() returned
    out,        \* every Some(item) returned by next() so far, in order
    dbs,        \* linked::Store.dbs: per backend, what it holds of the id looked up
    contained,  \* what contains(id) returned, if called
    found,      \* what try_find_cached(id, ..) returned, if called
    located,    \* what location_by_oid(id, ..) returned, if called
    entry,      \* what entry_by_location(located) returned, if called
    workers,    \* per thread sharing the store: the call it is in and how far it is
    bufs,       \* per thread: what its buffer (Vec<u8>) holds
    made,       \* what the index file on disk was written from, and its damage
    data,       \* the bytes of the index file (File.data)
    index,      \* what File::at returned, if called
    iterated,   \* the entries of the first File::iter, if called
    again,      \* the entries of a second File::iter, if called
    options,    \* release: Options [dry_run, allow_dirty]
    crate_names,       \* the crate names requested
    packages,   \* meta.packages as far as looked up: name -> dependencies
    members,    \* is_workspace_member(meta, name) as far as asked: name -> bool
    names_to_publish,
    publish_index,     \* `index` of release_depth_first
    seen,       \* release State.seen
    taken,      \* how many of crate_names the first loop has taken
    remaining,  \* what names_to_publish.iter().rev() has yet to yield
    processed,  \* the crates the second loop has taken, in order
    pc,         \* where release_depth_first is
    attempt,    \* `attempt` of publish_crate
    events,     \* what was done (real) or only logged, in order
    result,     \* what release_depth_first returned
    context,    \* explode: Context [delete_pack, verify] and object_path
    entries,    \* per object of the pack: what writing and verifying it gives
    explode_pc, \* where pack_or_pack_index is
    handled,    \* how many objects the traversal has handed to the closure
    on_disk,    \* which of the pack's files exist
    removals,   \* the files removed, in order
    returned,   \* what pack_or_pack_index returned
    first       \* the traversal that ran on the fresh State, once a State is reused

vars == <<stage, tips, mode, sorting, state, absent, commits, dates,
          accepted, rejected, last, out, dbs, contained, found, located, entry,
          workers, bufs, made, data, index, iterated, again, options,
          crate_names, packages, members, names_to_publish, publish_index, seen,
          taken, remaining, processed, pc, attempt, events, result, context,
          entries, explode_pc, handled, on_disk, removals, returned, first>>

storeVars == <<dbs, contained, found, located, entry, workers, bufs>>

indexVars == <<made, data, index, iterated, again>>

NoFile == [kind |-> "V1", keys |-> <<>>, offsets |-> <<>>, damage |-> "none"]

Unopened == [tag |-> "Unopened"]

NotIterated == [tag |-> "NotIterated"]

\* No index file is looked at.
NoIndex ==
    /\ made = NoFile
    /\ data = <<>>
    /\ index = Unopened
    /\ iterated = NotIterated
    /\ again = NotIterated

releaseVars == <<options, crate_names, packages, members, names_to_publish,
                 publish_index, seen, taken, remaining, processed, pc, attempt,
                 events, result>>

\* No release is run.
NoRelease ==
    /\ options = [dry_run |-> TRUE, allow_dirty |-> FALSE]
    /\ crate_names = <<>>
    /\ packages = <<>>
    /\ members = <<>>
    /\ names_to_publish = <<>>
    /\ publish_index = 0
    /\ seen = {}
    /\ taken = 0
    /\ remaining = <<>>
    /\ processed = <<>>
    /\ pc = "idle"
    /\ attempt = 0
    /\ events = <<>>
    /\ result = "none"

explodeVars == <<context, entries, explode_pc, handled, on_disk, removals, returned>>

\* No pack is exploded.
NoExplode ==
    /\ context = [delete_pack |-> FALSE, verify |-> FALSE, object_path |-> "none"]
    /\ entries = <<>>
    /\ explode_pc = "idle"
    /\ handled = 0
    /\ on_disk = {}
    /\ removals = <<>>
    /\ returned = "none"

toolVars == <<releaseVars, explodeVars>>

NoTools == NoRelease /\ NoExplode

\* The threads that share one store.
Threads == {"w1", "w2"}

IdleWorker == [op |-> "idle", at |-> 0, result |-> [tag |-> "Uncalled"]]

EmptyBuf == [by |-> "nobody", op |-> "none"]

NoSharing ==
    /\ workers = [t \in Threads |-> IdleWorker]
    /\ bufs = [t \in Threads |-> EmptyBuf]

traversalVars == <<stage, tips, mode, sorting, state, absent, commits, dates,
                   accepted, rejected, last, out, first>>

\* ------------------------------------------------------------ helpers
Range(s) == {s[i] : i \in 1..Len(s)}

SeqsUpTo(S, n) == UNION {[1..k -> S] : k \in 0..n}

MaxOf(S) == IF S = {} THEN 0 ELSE CHOOSE x \in S : \A y \in S : y <= x

\* Ids are numbered by first mention: each element either was named before
\* or is the next unused number.
RECURSIVE FirstMentionOrder(_, _)
FirstMentionOrder(s, named) ==
    IF s = <<>> THEN TRUE
    ELSE /\ Head(s) <= MaxOf(named) + 1
         /\ FirstMentionOrder(Tail(s), named \cup {Head(s)})

Named == Range(tips) \cup accepted \cup rejected \cup UNION {Range(commits[i].parents) : i \in DOMAIN commits}

\* The tokens between the tree token and the author token of a commit.
TokenCount(c) == Len(c.parents) + (IF c.perr THEN 1 ELSE 0)

RECURSIVE SumTokens(_)
SumTokens(S) ==
    IF S = {} THEN 0
    ELSE LET i == CHOOSE x \in S : TRUE
         IN  TokenCount(commits[i]) + SumTokens(S \ {i})

\* --------------------------------------------------- the token stream
\* What the traversal reads of a CommitRefIter: the first (tree) token, then
\* the parent tokens up to the first token that is no parent.  tree = FALSE:
\* the first token is Err.  perr = TRUE: the token after the listed parents
\* is Err; perr = FALSE: it is a later token (author, ...) or the end.
\* Nothing behind an Err token is ever read, so streams end there.
TreeErrCommit == [tree |-> FALSE, parents |-> <<>>, perr |-> FALSE]

\* The part of the input not yet used up.
Budget == MaxInput - Len(tips) - SumTokens(DOMAIN commits)

\* The parent lists of at most n tokens, ids numbered by first mention.
ParentLists(n) ==
    {p \in SeqsUpTo(1..(MaxOf(Named) + n), n) : FirstMentionOrder(p, Named)}

CommitTokens ==
    {TreeErrCommit}
    \cup {[tree |-> TRUE, parents |-> p, perr |-> FALSE] : p \in ParentLists(Budget)}
    \cup {[tree |-> TRUE, parents |-> p, perr |-> TRUE] : p \in ParentLists(Budget - 1)}

\* Option<CommitRefIter>: some = FALSE is None.
NoneFound == [some |-> FALSE, c |-> TreeErrCommit]

\* The answers find(oid, buf) may give when the traversal decodes oid.
FindCommit(oid) ==
    IF oid \in absent THEN {NoneFound}
    ELSE IF oid \in DOMAIN commits THEN {[some |-> TRUE, c |-> commits[oid]]}
    ELSE (IF oid \in DOMAIN dates THEN {} ELSE {NoneFound})
         \cup {[some |-> TRUE, c |-> c] : c \in CommitTokens}

\* ------------------------------------------------------------ items
OkItem(oid) == [tag |-> "Ok", oid |-> oid]
\* NotFound with the None arm falling through to res.map(Ok).
NotFoundFallsThrough(oid) == OkItem(oid)

NotFound(oid) == [tag |-> "NotFound", oid |-> oid]
ObjectDecode(oid) == [tag |-> "ObjectDecode", oid |-> oid]
\* NoItem with an empty queue reported as an error item.
NoItemAsErr == [tag |-> "NotFound", oid |-> 0]

NoItem == [tag |-> "None", oid |-> 0]

\* ------------------------------------------------------------- State
EmptyState == [next |-> <<>>, buf |-> 0, seen |-> {}]

\* clear leaving the seen set as it is.
clear_keeps_seen(st) == [st EXCEPT !.next = <<>>, !.buf = 0]

\* State::clear
clear(st) == [st EXCEPT !.next = <<>>, !.buf = 0, !.seen = {}]

\* InsertAndPush without the was_inserted test: pushes whatever is accepted.
InsertAndPushAlways(w, id, acc) ==
    [next  |-> IF id \in acc THEN Append(w.next, id) ELSE w.next,
     seen  |-> w.seen \cup {id},
     asked |-> w.asked \cup {id}]

\* InsertAndPush with push_front for push_back.
InsertAndPushFront(w, id, acc) ==
    LET was_inserted == id \notin w.seen
    IN  [next  |-> IF was_inserted /\ id \in acc THEN <<id>> \o w.next ELSE w.next,
         seen  |-> w.seen \cup {id},
         asked |-> IF was_inserted THEN w.asked \cup {id} ELSE w.asked]

\* InsertAndPush marking an id seen only when the predicate accepts it.
InsertAndPushSeenIfAccepted(w, id, acc) ==
    LET was_inserted == id \notin w.seen
    IN  [next  |-> IF was_inserted /\ id \in acc THEN Append(w.next, id) ELSE w.next,
         seen  |-> IF id \in acc THEN w.seen \cup {id} ELSE w.seen,
         asked |-> IF was_inserted THEN w.asked \cup {id} ELSE w.asked]

\* let was_inserted = state.seen.insert(id);
\* if was_inserted && predicate(&id) { state.next.push_back(id); }
\* acc: the ids the predicate accepts; asked collects the predicate's calls.
InsertAndPush(w, id, acc) ==
    LET was_inserted == id \notin w.seen
    IN  [next  |-> IF was_inserted /\ id \in acc THEN Append(w.next, id) ELSE w.next,
         seen  |-> w.seen \cup {id},
         asked |-> IF was_inserted THEN w.asked \cup {id} ELSE w.asked]

\* The predicate is a pure function of the id: the sets of ids it may accept
\* in a step that calls it on the ids asked, given its earlier verdicts.
Predicates(asked) ==
    {accepted \cup x : x \in SUBSET (asked \ (accepted \cup rejected))}

\* TipsLoop without the predicate: every new tip is pushed.
RECURSIVE TipsLoopNoPredicate(_, _, _)
TipsLoopNoPredicate(ts, w, acc) ==
    IF ts = <<>> THEN w
    ELSE TipsLoopNoPredicate(Tail(ts), InsertAndPush(w, Head(ts), Ids), acc)

\* for tip in tips { ... }
RECURSIVE TipsLoop(_, _, _)
TipsLoop(ts, w, acc) ==
    IF ts = <<>> THEN w
    ELSE TipsLoop(Tail(ts), InsertAndPush(w, Head(ts), acc), acc)

\* Ancestors::filtered (Ancestors::new is filtered with |_| true)
Filtered(ts, acc) ==
    /\ acc \in Predicates(Range(ts))
    /\ LET c == clear(state)
           w == TipsLoop(ts, [next |-> c.next, seen |-> c.seen, asked |-> {}], acc)
       IN  /\ state' = [c EXCEPT !.next = w.next, !.seen = w.seen]
           /\ accepted' = accepted \cup (w.asked \cap acc)
           /\ rejected' = rejected \cup (w.asked \ acc)
    /\ tips' = ts
    /\ mode' = "All"
    /\ sorting' = "GraphOrder"
    /\ stage' = "built"
    /\ UNCHANGED <<absent, commits, dates>>

\* Ancestors::mode.  The builder methods consume the iterator; they are
\* applied when the traversal is configured, before the first next().
SetMode(m) ==
    /\ stage = "built"
    /\ mode # m
    /\ mode' = m
    /\ UNCHANGED <<stage, tips, sorting, state, absent, commits, dates,
                   accepted, rejected, last, out>>

\* Ancestors::sorting
SetSorting(s) ==
    /\ stage = "built"
    /\ sorting # s
    /\ sorting' = s
    /\ UNCHANGED <<stage, tips, mode, state, absent, commits, dates,
                   accepted, rejected, last, out>>

\* PopFront reading the front without removing it (front() for pop_front()).
PopFrontPeek(q) == q

\* What state.next.pop_front() leaves of a non-empty queue.
PopFront(q) == Tail(q)

\* LookedUp without the break on Parents::First.
LookedUpAll(c, m) == c.parents

\* The parent tokens a token loop handles before it breaks: all of them, or
\* the first with Parents::First.
LookedUp(c, m) ==
    IF m = "First" /\ c.parents # <<>> THEN <<Head(c.parents)>> ELSE c.parents

\* The ids of a sequence that state.seen.insert reports as newly inserted.
NewlySeen(ps) == Range(ps) \ state.seen

\* GraphParents with the first parent token skipped (the iterator advanced
\* once too often).
RECURSIVE GraphParentsSkipFirst(_, _, _)
GraphParentsSkipFirst(ps, w, acc) ==
    IF Len(ps) <= 1 THEN w
    ELSE InsertAndPush(GraphParentsSkipFirst(SubSeq(ps, 1, Len(ps) - 1), w, acc),
                       ps[Len(ps)], acc)

\* GraphParents pushing the parents in reverse order.
RECURSIVE GraphParentsReversed(_, _, _)
GraphParentsReversed(ps, w, acc) ==
    IF ps = <<>> THEN w
    ELSE InsertAndPush(GraphParentsReversed(Tail(ps), w, acc), Head(ps), acc)

\* for token in commit_iter { match token { Ok(Parent{id}) => ..., } }
\* of graph_sort_next, over the parent tokens ps it handles.
RECURSIVE GraphParents(_, _, _)
GraphParents(ps, w, acc) ==
    IF ps = <<>> THEN w
    ELSE GraphParents(Tail(ps), InsertAndPush(w, Head(ps), acc), acc)

\* ReachesErr with Err(err) handled like a token past the parents (break).
ReachesErrNever(c, m) == FALSE

\* Whether the token loop reaches the Err token behind the parents.
ReachesErr(c, m) == c.perr /\ (m = "All" \/ c.parents = <<>>)

\* Ancestors::graph_sort_next
GraphSortNext ==
    /\ stage \in {"built", "iter"}
    /\ sorting = "GraphOrder"
    /\ stage' = "iter"
    /\ UNCHANGED <<tips, mode, sorting, dates>>
    /\ IF state.next = <<>>
       THEN /\ last' = NoItem
            /\ UNCHANGED <<state, absent, commits, accepted, rejected, out>>
       ELSE LET oid == Head(state.next)
                popped == PopFront(state.next)
            IN \E a \in FindCommit(oid) :
                IF ~a.some
                THEN /\ absent' = absent \cup {oid}
                     /\ state' = [state EXCEPT !.next = popped]
                     /\ last' = NotFound(oid)
                     /\ out' = Append(out, NotFound(oid))
                     /\ UNCHANGED <<commits, accepted, rejected>>
                ELSE /\ commits' = (oid :> a.c) @@ commits
                     /\ UNCHANGED absent
                     /\ IF ~a.c.tree
                        THEN /\ state' = [state EXCEPT !.next = popped, !.buf = oid]
                             /\ last' = ObjectDecode(oid)
                             /\ out' = Append(out, ObjectDecode(oid))
                             /\ UNCHANGED <<accepted, rejected>>
                        ELSE \E acc \in Predicates(NewlySeen(LookedUp(a.c, mode))) :
                             LET w == GraphParents(LookedUp(a.c, mode),
                                        [next |-> popped, seen |-> state.seen, asked |-> {}],
                                        acc)
                                 item == IF ReachesErr(a.c, mode)
                                         THEN ObjectDecode(oid) ELSE OkItem(oid)
                             IN  /\ state' = [next |-> w.next, buf |-> oid, seen |-> w.seen]
                                 /\ accepted' = accepted \cup (w.asked \cap acc)
                                 /\ rejected' = rejected \cup (w.asked \ acc)
                                 /\ last' = item
                                 /\ out' = Append(out, item)

\* ------------------------------------------------ committer-date order
\* What find(id, &mut vec) followed by committer() may give for a parent:
\* -1: find returned None; 0: the commit has no committer; else its time.
\* known: the commits decoded so far, the one being expanded included.
DateAnswers(id, known) ==
    IF id \in absent THEN {-1}
    ELSE IF id \in DOMAIN dates THEN {dates[id]}
    ELSE IF id \in known THEN 0..MaxDate
    ELSE (-1)..MaxDate

\* ParentsWithDate keeping the parents that furnish no date (as time 0).
RECURSIVE ParentsWithDateKeepAll(_, _)
ParentsWithDateKeepAll(ps, da) ==
    IF ps = <<>> THEN <<>>
    ELSE <<[id |-> Head(ps), time |-> IF da[Head(ps)] >= 1 THEN da[Head(ps)] ELSE 0]>>
         \o ParentsWithDateKeepAll(Tail(ps), da)

\* parents_with_date: (id, time) of each looked-up parent that has a date.
RECURSIVE ParentsWithDate(_, _)
ParentsWithDate(ps, da) ==
    IF ps = <<>> THEN <<>>
    ELSE (IF da[Head(ps)] >= 1
          THEN <<[id |-> Head(ps), time |-> da[Head(ps)]]>> ELSE <<>>)
         \o ParentsWithDate(Tail(ps), da)

\* Where a stable descending sort puts x among the already sorted elements.
RECURSIVE InsertDescending(_, _)
InsertDescending(sorted, x) ==
    IF sorted = <<>> THEN <<x>>
    ELSE IF Head(sorted).time >= x.time
         THEN <<Head(sorted)>> \o InsertDescending(Tail(sorted), x)
         ELSE <<x>> \o sorted

\* SortByDate with the comparator's operands swapped: ascending.
RECURSIVE SortByDateAscending(_)
SortByDateAscending(b) ==
    IF b = <<>> THEN <<>>
    ELSE LET r == SortByDateAscending(Tail(b))
             lo == SelectSeq(r, LAMBDA y : y.time < Head(b).time)
             hi == SelectSeq(r, LAMBDA y : y.time >= Head(b).time)
         IN  lo \o <<Head(b)>> \o hi

\* parents_with_date.sort_by(|(_, time), (_, other_time)| other_time.cmp(&time))
RECURSIVE SortByDate(_)
SortByDate(b) ==
    IF b = <<>> THEN <<>>
    ELSE InsertDescending(SortByDate(SubSeq(b, 1, Len(b) - 1)), b[Len(b)])

\* EnqueueBatch putting the batch in front of the ids already pending.
RECURSIVE EnqueueBatchInFront(_, _, _)
EnqueueBatchInFront(b, w, acc) ==
    IF b = <<>> THEN w
    ELSE LET r == EnqueueBatchInFront(SubSeq(b, 1, Len(b) - 1), w, acc)
             x == b[Len(b)].id
             k == Len(r.next) - Len(w.next)
         IN  IF x \notin r.seen /\ x \in acc
             THEN [next  |-> SubSeq(r.next, 1, k) \o <<x>>
                             \o SubSeq(r.next, k + 1, Len(r.next)),
                   seen  |-> r.seen \cup {x},
                   asked |-> r.asked \cup {x}]
             ELSE [next  |-> r.next,
                   seen  |-> r.seen \cup {x},
                   asked |-> IF x \notin r.seen THEN r.asked \cup {x} ELSE r.asked]

\* for parent in parents_with_date { ... }
RECURSIVE EnqueueBatch(_, _, _)
EnqueueBatch(b, w, acc) ==
    IF b = <<>> THEN w
    ELSE EnqueueBatch(Tail(b), InsertAndPush(w, Head(b).id, acc), acc)

\* Ancestors::next_by_commit_date
NextByCommitDate ==
    /\ stage \in {"built", "iter"}
    /\ sorting = "ByCommitterDate"
    /\ stage' = "iter"
    /\ UNCHANGED <<tips, mode, sorting>>
    /\ IF state.next = <<>>
       THEN /\ last' = NoItem
            /\ UNCHANGED <<state, absent, commits, dates, accepted, rejected, out>>
       ELSE LET oid == Head(state.next)
                popped == PopFront(state.next)
            IN \E a \in FindCommit(oid) :
                IF ~a.some
                THEN /\ absent' = absent \cup {oid}
                     /\ state' = [state EXCEPT !.next = popped]
                     /\ last' = NotFound(oid)
                     /\ out' = Append(out, NotFound(oid))
                     /\ UNCHANGED <<commits, dates, accepted, rejected>>
                ELSE /\ commits' = (oid :> a.c) @@ commits
                     /\ IF ~a.c.tree
                        THEN /\ state' = [state EXCEPT !.next = popped, !.buf = oid]
                             /\ last' = ObjectDecode(oid)
                             /\ out' = Append(out, ObjectDecode(oid))
                             /\ UNCHANGED <<absent, dates, accepted, rejected>>
                        ELSE LET looked == LookedUp(a.c, mode)
                                 L == Range(looked)
                             IN \E da \in {f \in [L -> (-1)..MaxDate] : \A p \in L :
                                            f[p] \in DateAnswers(p, DOMAIN commits \cup {oid})} :
                                /\ absent' = absent \cup {p \in L : da[p] = -1}
                                /\ dates' = [p \in {q \in L : da[q] >= 0} |-> da[p]] @@ dates
                                /\ IF ReachesErr(a.c, mode)
                                   THEN /\ state' = [state EXCEPT !.next = popped, !.buf = oid]
                                        /\ last' = ObjectDecode(oid)
                                        /\ out' = Append(out, ObjectDecode(oid))
                                        /\ UNCHANGED <<accepted, rejected>>
                                   ELSE LET b == SortByDate(ParentsWithDate(looked, da))
                                        IN \E acc \in Predicates(NewlySeen([i \in 1..Len(b) |-> b[i].id])) :
                                        LET w == EnqueueBatch(b,
                                                   [next |-> popped, seen |-> state.seen,
                                                    asked |-> {}], acc)
                                        IN  /\ state' = [next |-> w.next, buf |-> oid,
                                                         seen |-> w.seen]
                                            /\ accepted' = accepted \cup (w.asked \cap acc)
                                            /\ rejected' = rejected \cup (w.asked \ acc)
                                            /\ last' = OkItem(oid)
                                            /\ out' = Append(out, OkItem(oid))

\* --------------------------------------------------------------- Spec
CanonicalTips == {ts \in SeqsUpTo(Ids, MaxInput) : FirstMentionOrder(ts, {})}

\* No State has been reused yet.
NoRun == [set |-> FALSE, tips |-> <<>>, mode |-> "All", sorting |-> "GraphOrder",
          out |-> <<>>, done |-> FALSE]

NoTraversal ==
    /\ stage = "new"
    /\ tips = <<>>
    /\ mode = "All"
    /\ sorting = "GraphOrder"
    /\ state = EmptyState
    /\ absent = {}
    /\ commits = <<>>
    /\ dates = <<>>
    /\ accepted = {}
    /\ rejected = {}
    /\ last = NoItem
    /\ out = <<>>
    /\ first = NoRun

Uncalled == [tag |-> "Uncalled", db |-> 0, location |-> 0]

\* No store is looked at while a traversal is modelled.
NoStore ==
    /\ dbs = <<>>
    /\ contained = Uncalled
    /\ found = Uncalled
    /\ located = Uncalled
    /\ entry = Uncalled
    /\ NoSharing

Init == NoTraversal /\ NoStore /\ NoIndex /\ NoTools

\* A caller builds the traversal: Ancestors::new / Ancestors::filtered on some
\* tips with some predicate.
Construct ==
    /\ stage = "new"
    /\ \E ts \in CanonicalTips : \E acc \in SUBSET Range(ts) : Filtered(ts, acc)
    /\ UNCHANGED <<last, out>>

Next ==
    /\ \/ Construct
       \/ \E m \in {"All", "First"} : SetMode(m)
       \/ \E s \in {"GraphOrder", "ByCommitterDate"} : SetSorting(s)
       \/ GraphSortNext
       \/ NextByCommitDate
    /\ UNCHANGED <<storeVars, indexVars, toolVars, first>>

Spec == Init /\ [][Next]_vars

\* The caller of an iterator it has started goes on calling next(): `for`
\* loops and collect() call it until it returns None.
\* Tips handed in plus parent/Err tokens decoded so far.
InputSize == Len(tips) + SumTokens(DOMAIN commits)

CallNext ==
    /\ GraphSortNext \/ NextByCommitDate
    /\ UNCHANGED <<storeVars, indexVars, toolVars, first>>
    /\ InputSize' <= MaxDrainInput

NextDrain == Next /\ InputSize' <= MaxDrainInput

SpecDrain == Init /\ [][NextDrain]_vars /\ WF_vars(CallNext)

\* ------------------------------------------------------ State reuse
\* The caller drops the Ancestors, at any point of its life, and builds the
\* same traversal again on the State it leaves behind, with the same tips,
\* the same find and the same predicate.  `first` keeps what the traversal on
\* the fresh State was and returned.
Reuse ==
    /\ stage \in {"built", "iter"}
    /\ ~first.set
    /\ \E acc \in Predicates(Range(tips)) : Filtered(tips, acc)
    /\ last' = NoItem
    /\ out' = <<>>
    /\ first' = [set |-> TRUE, tips |-> tips, mode |-> mode, sorting |-> sorting,
                 out |-> out, done |-> stage = "iter" /\ last.tag = "None"]
    /\ UNCHANGED <<storeVars, indexVars, toolVars>>

\* On the reused State the caller repeats the first traversal: the builders
\* set the mode and the sorting it had, and next() is called as long as the
\* first traversal has a return to compare with.
SameAgain ==
    \/ ~first.set
    \/ /\ stage' = "built"
       /\ mode' \in {mode, first.mode}
       /\ sorting' \in {sorting, first.sorting}
    \/ /\ stage' = "iter"
       /\ mode = first.mode /\ sorting = first.sorting
       /\ \/ Len(out) < Len(first.out)
          \/ first.done /\ last.tag # "None"

NextReuse ==
    /\ (Next /\ SameAgain) \/ Reuse
    /\ InputSize' <= MaxReuseInput

SpecReuse == Init /\ [][NextReuse]_vars

\* ------------------------------------------------- both sorting modes
\* The caller runs a traversal to its end and then builds a traversal with
\* the same tips, the same find, the same predicate and the same Parents
\* mode, and with the other Sorting.
OtherSorting ==
    \/ ~first.set
    \/ /\ stage' = "built"
       /\ mode' \in {mode, first.mode}
    \/ /\ stage' = "iter"
       /\ mode = first.mode /\ sorting # first.sorting

NextBoth ==
    /\ \/ Next /\ OtherSorting
       \/ stage = "iter" /\ last = NoItem /\ Reuse
    /\ InputSize' <= MaxReuseInput

SpecBoth == Init /\ [][NextBoth]_vars

\* ------------------------------------------------------- linked store
\* What one backend holds of the id in its pack bundles: `bundle` is the
\* index of the bundle internal_find_packed() answers with (0: None), `ok`
\* whether internal_get_packed_object_by_index() decodes the entry and
\* `inflates` whether pack.decompress_entry() succeeds on it (decoding an
\* entry decompresses it, so an entry that decodes inflates).
NotPacked == [bundle |-> 0, ok |-> TRUE, inflates |-> TRUE]

PackedStates ==
    {NotPacked} \cup
    {p \in [bundle : 1..MaxBundles, ok : BOOLEAN, inflates : BOOLEAN] :
        p.ok => p.inflates}

\* What one backend holds of the id in its loose store: "no": loose.contains()
\* is false; otherwise it is true and loose.try_find() answers Ok(Some) ("ok"),
\* Err ("bad") or Ok(None) ("gone").
LooseStates == {"no", "ok", "bad", "gone"}

Backends == [packed : PackedStates, loose : LooseStates]

Stores == SeqsUpTo(Backends, MaxDbs)

internal_find_packed(db) == db.packed.bundle # 0

loose_contains(db) == db.loose # "no"

\* contains looking at the first backend only.
contains_first_only(ds) ==
    ds # <<>> /\ (internal_find_packed(ds[1]) \/ loose_contains(ds[1]))

\* contains looking at the pack bundles only.
RECURSIVE contains_packed_only(_)
contains_packed_only(ds) ==
    IF ds = <<>> THEN FALSE
    ELSE IF internal_find_packed(Head(ds)) THEN TRUE
    ELSE contains_packed_only(Tail(ds))

\* linked::Store::contains
RECURSIVE contains(_)
contains(ds) ==
    IF ds = <<>> THEN FALSE
    ELSE IF internal_find_packed(Head(ds)) \/ loose_contains(Head(ds)) THEN TRUE
    ELSE contains(Tail(ds))

\* Ok(Some((object, location))): the object read from backend i, with the
\* pack location (here the bundle) or None (0) for a loose object.
OkSome(i, bundle) == [tag |-> "Some", db |-> i, location |-> bundle]

OkNone == [tag |-> "None", db |-> 0, location |-> 0]

ErrFrom(i) == [tag |-> "Err", db |-> i, location |-> 0]

\* The packed arm: internal_get_packed_object_by_index(..).map(..).map_err(..)
PackedObject(db, i) ==
    IF db.packed.ok THEN OkSome(i, db.packed.bundle) ELSE ErrFrom(i)

\* The loose arm: loose.try_find(..).map(|o| o.map(|o| (o, None))).map_err(..)
LooseObject(db, i) ==
    CASE db.loose = "ok"   -> OkSome(i, 0)
      [] db.loose = "gone" -> OkNone
      [] db.loose = "bad"  -> ErrFrom(i)

\* try_find_cached asking the loose store before the pack bundles.
RECURSIVE try_find_cached_loose_first(_, _)
try_find_cached_loose_first(ds, i) ==
    IF i > Len(ds) THEN OkNone
    ELSE IF loose_contains(ds[i]) THEN LooseObject(ds[i], i)
    ELSE IF internal_find_packed(ds[i]) THEN PackedObject(ds[i], i)
    ELSE try_find_cached_loose_first(ds, i + 1)

\* try_find_cached reading the loose store without asking loose.contains(),
\* so that a miss is a failed read.
RECURSIVE try_find_cached_unguarded(_, _)
try_find_cached_unguarded(ds, i) ==
    IF i > Len(ds) THEN OkNone
    ELSE IF internal_find_packed(ds[i]) THEN PackedObject(ds[i], i)
    ELSE IF loose_contains(ds[i]) THEN LooseObject(ds[i], i)
    ELSE ErrFrom(i)

\* try_find_cached going on to the next backend when a read fails.
RECURSIVE try_find_cached_skips_errors(_, _)
try_find_cached_skips_errors(ds, i) ==
    IF i > Len(ds) THEN OkNone
    ELSE LET r == IF internal_find_packed(ds[i]) THEN PackedObject(ds[i], i)
                  ELSE IF loose_contains(ds[i]) THEN LooseObject(ds[i], i)
                  ELSE OkNone
         IN  IF r.tag = "Some" \/ (r.tag = "None" /\ loose_contains(ds[i]))
             THEN r
             ELSE try_find_cached_skips_errors(ds, i + 1)

\* linked::Store::try_find_cached, from backend i on.
RECURSIVE try_find_cached(_, _)
try_find_cached(ds, i) ==
    IF i > Len(ds) THEN OkNone
    ELSE IF internal_find_packed(ds[i]) THEN PackedObject(ds[i], i)
    ELSE IF loose_contains(ds[i]) THEN LooseObject(ds[i], i)
    ELSE try_find_cached(ds, i + 1)

\* bundle.pack.id of bundle k of backend i: each backend has MaxBundles
\* bundles, and an id names one bundle of the store.
PackId(i, k) == (i - 1) * MaxBundles + (k - 1)

\* The index entry of the id in bundle k of backend i (the entry_index that
\* internal_find_packed answers with), and what the bundle's index holds at it.
EntryRef(i, k) == [db |-> i, bundle |-> k]

NoLocation == [tag |-> "None"]

\* pack::bundle::Location { pack_id, pack_offset, index_file_id, .. }
LocationOf(i, k) ==
    [tag |-> "Some", pack_id |-> PackId(i, k),
     pack_offset |-> EntryRef(i, k), index_file_id |-> EntryRef(i, k)]

\* location_by_oid going on to the next backend when the entry does not
\* decompress.
RECURSIVE location_by_oid_falls_through(_, _)
location_by_oid_falls_through(ds, i) ==
    IF i > Len(ds) THEN NoLocation
    ELSE IF internal_find_packed(ds[i]) /\ ds[i].packed.inflates
         THEN LocationOf(i, ds[i].packed.bundle)
         ELSE location_by_oid_falls_through(ds, i + 1)

\* linked::Store::location_by_oid, from backend i on.
RECURSIVE location_by_oid(_, _)
location_by_oid(ds, i) ==
    IF i > Len(ds) THEN NoLocation
    ELSE IF internal_find_packed(ds[i])
         THEN IF ds[i].packed.inflates
              THEN LocationOf(i, ds[i].packed.bundle)
              ELSE NoLocation
         ELSE location_by_oid(ds, i + 1)

NoBundle == [db |-> 0, bundle |-> 0]

\* dbs.iter().find_map(|db| db.bundles.iter().find(|p| p.pack.id == pack_id)),
\* from bundle k of backend i on.
RECURSIVE FindBundle(_, _, _, _)
FindBundle(ds, pack_id, i, k) ==
    IF i > Len(ds) THEN NoBundle
    ELSE IF k > MaxBundles THEN FindBundle(ds, pack_id, i + 1, 1)
    ELSE IF PackId(i, k) = pack_id THEN [db |-> i, bundle |-> k]
    ELSE FindBundle(ds, pack_id, i, k + 1)

NoEntry == [tag |-> "None"]

\* entry_by_location looking for the pack id in the first backend only.
entry_by_location_first_db(ds, l) ==
    LET b == FindBundle(SubSeq(ds, 1, 1), l.pack_id, 1, 1)
    IN  IF b = NoBundle THEN NoEntry
        ELSE [tag |-> "Some", bundle |-> b, index |-> l.index_file_id]

\* linked::Store::entry_by_location: the raw entry, CRC32 and pack version
\* read from the bundle found for l.pack_id, at index l.index_file_id.
entry_by_location(ds, l) ==
    LET b == FindBundle(ds, l.pack_id, 1, 1)
    IN  IF b = NoBundle THEN NoEntry
        ELSE [tag |-> "Some", bundle |-> b, index |-> l.index_file_id]

InitStore ==
    /\ NoTraversal
    /\ dbs \in Stores
    /\ contained = Uncalled
    /\ found = Uncalled
    /\ located = Uncalled
    /\ entry = Uncalled
    /\ NoSharing
    /\ NoIndex
    /\ NoTools

CallContains ==
    /\ contained = Uncalled
    /\ contained' = [Uncalled EXCEPT !.tag = IF contains(dbs) THEN "true" ELSE "false"]
    /\ UNCHANGED <<dbs, found, located, entry>>
    /\ UNCHANGED traversalVars

CallTryFindCached ==
    /\ found = Uncalled
    /\ found' = try_find_cached(dbs, 1)
    /\ UNCHANGED <<dbs, contained, located, entry>>
    /\ UNCHANGED traversalVars

CallLocationByOid ==
    /\ located = Uncalled
    /\ located' = location_by_oid(dbs, 1)
    /\ UNCHANGED <<dbs, contained, found, entry>>
    /\ UNCHANGED traversalVars

\* entry_by_location on a Location that location_by_oid returned.
CallEntryByLocation ==
    /\ located # Uncalled /\ located.tag = "Some"
    /\ entry = Uncalled
    /\ entry' = entry_by_location(dbs, located)
    /\ UNCHANGED <<dbs, contained, found, located>>
    /\ UNCHANGED traversalVars

NextStore ==
    /\ CallContains \/ CallTryFindCached \/ CallLocationByOid \/ CallEntryByLocation
    /\ UNCHANGED <<workers, bufs, indexVars, toolVars>>

SpecStore == InitStore /\ [][NextStore]_vars

\* ------------------------------------------- one store, several threads
\* The stores the threads share: each backend holds the id in its first
\* bundle or not, intact or corrupt, and loose or not.
SharedStores ==
    {ds \in Stores : \A i \in DOMAIN ds :
        /\ ds[i].packed.bundle <= 1
        /\ ds[i].packed.ok = ds[i].packed.inflates
        /\ ds[i].loose \in {"no", "ok"}}

\* All threads writing into the buffer of the first.
BufferShared(t) == "w1"

\* Each thread is given its own buffer and cache: || (Vec::new(), new_cache()).
BufferOf(t) == t

\* The loop body of the call decides at backend ds[i].
Hit(op, db) ==
    IF op = "locate" THEN internal_find_packed(db)
    ELSE internal_find_packed(db) \/ loose_contains(db)

\* What the call returns when it decides at backend i or runs off the list.
ReturnFrom(op, ds, i) ==
    CASE op = "contains" -> [tag |-> IF contains(SubSeq(ds, i, Len(ds)))
                                     THEN "true" ELSE "false"]
      [] op = "find"     -> try_find_cached(ds, i)
      [] op = "locate"   -> location_by_oid(ds, i)

\* A thread calls contains, find or location_by_oid for its id.
Begin(t, op) ==
    /\ workers[t].op = "idle"
    /\ workers' = [workers EXCEPT ![t] = [op |-> op, at |-> 1,
                                          result |-> [tag |-> "Uncalled"]]]
    /\ UNCHANGED <<dbs, bufs>>

\* The call looks at the next backend: a miss moves on; a hit, or the end of
\* the list, ends the loop.  find and location_by_oid decode into the
\* thread's buffer.
Examine(t) ==
    LET w == workers[t]
    IN  /\ w.op # "idle" /\ w.result.tag = "Uncalled"
        /\ IF w.at <= Len(dbs) /\ ~Hit(w.op, dbs[w.at])
           THEN /\ workers' = [workers EXCEPT ![t].at = w.at + 1]
                /\ UNCHANGED bufs
           ELSE /\ workers' = [workers EXCEPT ![t].result = ReturnFrom(w.op, dbs, w.at)]
                /\ bufs' = IF w.op # "contains" /\ w.at <= Len(dbs)
                           THEN [bufs EXCEPT ![BufferOf(t)] = [by |-> t, op |-> w.op]]
                           ELSE bufs
        /\ UNCHANGED dbs

\* The thread uses what the call returned (obj.data borrows its buffer) and
\* goes on to its next id.
Use(t) ==
    /\ workers[t].result.tag # "Uncalled"
    /\ workers' = [workers EXCEPT ![t] = IdleWorker]
    /\ UNCHANGED <<dbs, bufs>>

InitShared ==
    /\ NoTraversal
    /\ dbs \in SharedStores
    /\ contained = Uncalled /\ found = Uncalled
    /\ located = Uncalled /\ entry = Uncalled
    /\ NoSharing
    /\ NoIndex
    /\ NoTools

NextShared ==
    /\ \E t \in Threads :
          \/ \E op \in {"contains", "find", "locate"} : Begin(t, op)
          \/ Examine(t)
          \/ Use(t)
    /\ UNCHANGED <<contained, found, located, entry>>
    /\ UNCHANGED <<indexVars, toolVars>>
    /\ UNCHANGED traversalVars

SpecShared == InitShared /\ [][NextShared]_vars

\* ----------------------------------------------------- pack index codec
V2_SIGNATURE == <<255, 116, 79, 99>>
SHA1_SIZE == 20
FOOTER_SIZE == SHA1_SIZE * 2
N32_SIZE == 4
N64_SIZE == 8
FAN_LEN == 256
V1_HEADER_SIZE == FAN_LEN * N32_SIZE
V2_HEADER_SIZE == N32_SIZE * 2 + FAN_LEN * N32_SIZE

Min(a, b) == IF a <= b THEN a ELSE b

\* d[from..to] of a byte slice (offsets from 0, `to` excluded).
Slice(d, from, to) == SubSeq(d, from + 1, to)

\* BigEndian::read_u32, for a value below 2^31.
U32(w) == ((w[1] * 256 + w[2]) * 256 + w[3]) * 256 + w[4]

\* The big-endian bytes of a u32 below 2^31.
BE32(n) == <<(n \div 16777216) % 256, (n \div 65536) % 256, (n \div 256) % 256, n % 256>>

Zeros(k) == [i \in 1..k |-> 0]

\* How many chunks slice.chunks(size) yields for a slice of length len, and
\* the i-th of them (the last one may be short).
Chunks(len, size) == (len + size - 1) \div size

Chunk(d, size, i) == SubSeq(d, size * (i - 1) + 1, Min(size * i, Len(d)))

\* read_fan: the first FAN_LEN chunks of 4 bytes, read big-endian.
read_fan(d) ==
    [i \in 1..FAN_LEN |->
        IF N32_SIZE * i <= Len(d) THEN U32(Chunk(d, N32_SIZE, i)) ELSE 0]

\* File::at checking the size against the fan table only, without the footer.
at_without_footer(d) ==
    IF Len(d) < FAN_LEN * N32_SIZE
    THEN [tag |-> "Corrupt"]
    ELSE LET isV2 == Slice(d, 0, Len(V2_SIGNATURE)) = V2_SIGNATURE
             v == IF isV2 THEN U32(Slice(d, N32_SIZE, N32_SIZE * 2)) ELSE 1
             fan == read_fan(IF isV2 THEN Slice(d, N32_SIZE * 2, Len(d)) ELSE d)
         IN  IF isV2 /\ v # 2
             THEN [tag |-> "UnsupportedVersion", version |-> v]
             ELSE [tag |-> "Ok", kind |-> IF isV2 THEN "V2" ELSE "V1",
                   version |-> v, num_objects |-> fan[FAN_LEN], fan |-> fan]

\* File::at taking whatever follows the V2 signature as the version.
at_any_version(d) ==
    IF Len(d) < FAN_LEN * N32_SIZE + FOOTER_SIZE
    THEN [tag |-> "Corrupt"]
    ELSE LET isV2 == Slice(d, 0, Len(V2_SIGNATURE)) = V2_SIGNATURE
             v == IF isV2 THEN U32(Slice(d, N32_SIZE, N32_SIZE * 2)) ELSE 1
             fan == read_fan(IF isV2 THEN Slice(d, N32_SIZE * 2, Len(d)) ELSE d)
         IN  [tag |-> "Ok", kind |-> IF isV2 THEN "V2" ELSE "V1",
              version |-> v, num_objects |-> fan[FAN_LEN], fan |-> fan]

\* File::at on the bytes of the file (the file could be opened).
at(d) ==
    IF Len(d) < FAN_LEN * N32_SIZE + FOOTER_SIZE
    THEN [tag |-> "Corrupt"]
    ELSE LET isV2 == Slice(d, 0, Len(V2_SIGNATURE)) = V2_SIGNATURE
             v == IF isV2 THEN U32(Slice(d, N32_SIZE, N32_SIZE * 2)) ELSE 1
             fan == read_fan(IF isV2 THEN Slice(d, N32_SIZE * 2, Len(d)) ELSE d)
         IN  IF isV2 /\ v # 2
             THEN [tag |-> "UnsupportedVersion", version |-> v]
             ELSE [tag |-> "Ok", kind |-> IF isV2 THEN "V2" ELSE "V1",
                   version |-> v, num_objects |-> fan[FAN_LEN], fan |-> fan]

Panic == [tag |-> "panic"]

\* An iteration: its entries, or a panic when reading one of them panics.
Collect(items) ==
    IF \E i \in DOMAIN items : items[i] = Panic
    THEN Panic
    ELSE [tag |-> "entries", entries |-> items]

\* A V1 entry read with the oid in front of the offset.
V1EntryOidFirst(c) ==
    IF Len(c) < SHA1_SIZE \/ Len(c) - SHA1_SIZE # N32_SIZE
    THEN Panic
    ELSE [oid |-> Slice(c, 0, SHA1_SIZE),
          offset |-> Zeros(N32_SIZE) \o Slice(c, SHA1_SIZE, Len(c)),
          crc32 |-> -1]

\* The closure of iter_v1 on one chunk: split_at(N32_SIZE), then
\* id_from_20_bytes and read_u32 (crc32: None is -1).
V1Entry(c) ==
    IF Len(c) < N32_SIZE \/ Len(c) - N32_SIZE # SHA1_SIZE
    THEN Panic
    ELSE [oid |-> Slice(c, N32_SIZE, Len(c)),
          offset |-> Zeros(N32_SIZE) \o Slice(c, 0, N32_SIZE),
          crc32 |-> -1]

iter_v1(f, d) ==
    LET rest == Slice(d, V1_HEADER_SIZE, Len(d))
        count == Min(f.num_objects, Chunks(Len(rest), N32_SIZE + SHA1_SIZE))
    IN  Collect([i \in 1..count |-> V1Entry(Chunk(rest, N32_SIZE + SHA1_SIZE, i))])

offset_crc32_v2(f) == V2_HEADER_SIZE + f.num_objects * SHA1_SIZE

offset_pack_offset_v2(f) == offset_crc32_v2(f) + f.num_objects * N32_SIZE

offset_pack_offset64_v2(f) == offset_pack_offset_v2(f) + f.num_objects * N32_SIZE

\* The offset of a V2 entry taken from the 32-bit word whatever its top bit.
ResolveOffsetWordOnly(ofs32, pack64_offset, d) ==
    Zeros(N32_SIZE) \o ofs32

\* The offset of a V2 entry: the 32-bit word, or with its top bit set the
\* 64-bit value at the index its other 31 bits give in the large-offset table.
ResolveOffset(ofs32, pack64_offset, d) ==
    IF ofs32[1] >= 128
    THEN LET from == pack64_offset
                     + U32(<<ofs32[1] - 128, ofs32[2], ofs32[3], ofs32[4]>>) * N64_SIZE
         IN  IF from + N64_SIZE > Len(d) THEN Panic ELSE Slice(d, from, from + N64_SIZE)
    ELSE Zeros(N32_SIZE) \o ofs32

\* The closure of iter_v2 on one (oid, crc32, ofs32) triple of chunks.
V2Entry(oid, crc32, ofs32, pack64_offset, d) ==
    IF Len(oid) # SHA1_SIZE \/ Len(crc32) < N32_SIZE \/ Len(ofs32) < N32_SIZE
    THEN Panic
    ELSE LET offset == ResolveOffset(ofs32, pack64_offset, d)
         IN  IF offset = Panic THEN Panic
             ELSE [oid |-> oid, offset |-> offset, crc32 |-> U32(crc32)]

iter_v2(f, d) ==
    IF offset_crc32_v2(f) > Len(d) \/ offset_pack_offset_v2(f) > Len(d)
    THEN Panic
    ELSE LET oids == Slice(d, V2_HEADER_SIZE, Len(d))
             crcs == Slice(d, offset_crc32_v2(f), Len(d))
             ofss == Slice(d, offset_pack_offset_v2(f), Len(d))
             count == Min(Min(f.num_objects, Chunks(Len(oids), SHA1_SIZE)),
                          Min(Chunks(Len(crcs), N32_SIZE), Chunks(Len(ofss), N32_SIZE)))
         IN  Collect([i \in 1..count |->
                 V2Entry(Chunk(oids, SHA1_SIZE, i), Chunk(crcs, N32_SIZE, i),
                         Chunk(ofss, N32_SIZE, i), offset_pack_offset64_v2(f), d)])

\* File::iter, run to its end.
iter(f, d) == IF f.kind = "V1" THEN iter_v1(f, d) ELSE iter_v2(f, d)

\* --- the index files on disk
\* Object ids, in increasing order of their key: the first byte, then the key.
Keys == 0..(MaxObjects + 1)

FirstByte(k) == IF k <= 1 THEN k ELSE 255

OidOf(k) == <<FirstByte(k)>> \o [i \in 1..(SHA1_SIZE - 1) |-> k]

CrcBytes(k) == <<k + 1, 0, k, 7>>

\* Pack offsets (as the 8 bytes of a u64) of the entry at position i:
\* small, 2^31 - 1, or with bit 31 set (in V2 also bits above 32).
OffsetKinds == {"small", "edge", "large"}

OffsetOf(kind, ok, i) ==
    CASE ok = "small" -> <<0, 0, 0, 0, 0, 0, 0, 12 + i>>
      [] ok = "edge"  -> <<0, 0, 0, 0, 127, 255, 255, 255>>
      [] ok = "large" -> IF kind = "V1" THEN <<0, 0, 0, 0, 128, 0, 0, i>>
                         ELSE <<0, 0, 0, i - 1, 128, 0, 0, i - 1>>

Damages ==
    {"none", "short0", "short3", "short1063", "version", "fan_more", "fan_unsorted"}

StrictlyIncreasing(ks) == \A i \in 1..(Len(ks) - 1) : ks[i] < ks[i + 1]

Files ==
    {m \in UNION {{[kind |-> k, keys |-> ks, offsets |-> os, damage |-> dm] :
                      k \in {"V1", "V2"},
                      ks \in {x \in [1..n -> Keys] : StrictlyIncreasing(x)},
                      os \in [1..n -> OffsetKinds],
                      dm \in Damages} : n \in 0..MaxObjects} :
        m.damage = "version" => m.kind = "V2"}

\* fan_table[b]: the number of entries whose oid's first byte is <= b.
FanOf(ks) ==
    [i \in 1..FAN_LEN |-> Cardinality({j \in DOMAIN ks : FirstByte(ks[j]) <= i - 1})]

WordsToBytes(ws) ==
    [j \in 1..(Len(ws) * N32_SIZE) |->
        BE32(ws[((j - 1) \div N32_SIZE) + 1])[((j - 1) % N32_SIZE) + 1]]

RECURSIVE Flatten(_)
Flatten(ss) == IF ss = <<>> THEN <<>> ELSE Head(ss) \o Flatten(Tail(ss))

IsLarge(o) == o[5] >= 128 \/ SubSeq(o, 1, 4) # Zeros(4)

\* The 32-bit offset words of a V2 file and its large-offset table.
LargeBefore(m, i) ==
    Cardinality({j \in 1..(i - 1) : IsLarge(OffsetOf(m.kind, m.offsets[j], j))})

Ofs32Of(m, i) ==
    LET o == OffsetOf(m.kind, m.offsets[i], i)
    IN  IF IsLarge(o) THEN <<128, 0, 0, LargeBefore(m, i)>> ELSE SubSeq(o, 5, 8)

Footer == [i \in 1..FOOTER_SIZE |-> 170]

\* The fan table words of the file: as the oids give them, or damaged.
FanWords(m) ==
    LET fan == FanOf(m.keys)
    IN  CASE m.damage = "fan_more" ->
                 [fan EXCEPT ![FAN_LEN] = Len(m.keys) + 1000]
          [] m.damage = "fan_unsorted" ->
                 [fan EXCEPT ![FAN_LEN - 1] = Len(m.keys) + 1]
          [] OTHER -> fan

EncodeV1(m) ==
    WordsToBytes(FanWords(m))
    \o Flatten([i \in DOMAIN m.keys |->
                   SubSeq(OffsetOf(m.kind, m.offsets[i], i), 5, 8) \o OidOf(m.keys[i])])
    \o Footer

EncodeV2(m) ==
    V2_SIGNATURE \o BE32(IF m.damage = "version" THEN 3 ELSE 2)
    \o WordsToBytes(FanWords(m))
    \o Flatten([i \in DOMAIN m.keys |-> OidOf(m.keys[i])])
    \o Flatten([i \in DOMAIN m.keys |-> CrcBytes(m.keys[i])])
    \o Flatten([i \in DOMAIN m.keys |-> Ofs32Of(m, i)])
    \o Flatten([i \in DOMAIN m.keys |->
                   IF IsLarge(OffsetOf(m.kind, m.offsets[i], i))
                   THEN OffsetOf(m.kind, m.offsets[i], i) ELSE <<>>])
    \o Footer

\* The bytes on disk: the encoded file, cut short where the damage says so.
Encode(m) ==
    LET bytes == IF m.kind = "V1" THEN EncodeV1(m) ELSE EncodeV2(m)
    IN  CASE m.damage = "short0"    -> <<>>
          [] m.damage = "short3"    -> SubSeq(bytes, 1, 3)
          [] m.damage = "short1063" -> SubSeq(bytes, 1, 1063)
          [] OTHER -> bytes

InitIndex ==
    /\ NoTraversal
    /\ NoStore
    /\ NoTools
    /\ made \in Files
    /\ data = Encode(made)
    /\ index = Unopened
    /\ iterated = NotIterated
    /\ again = NotIterated

\* File::at(path)
At ==
    /\ index = Unopened
    /\ index' = at(data)
    /\ UNCHANGED <<made, data, iterated, again>>

\* File::iter(), run to its end.
Iter ==
    /\ index.tag = "Ok" /\ iterated = NotIterated
    /\ iterated' = iter(index, data)
    /\ UNCHANGED <<made, data, index, again>>

\* A second File::iter() on the same File.
IterAgain ==
    /\ index.tag = "Ok" /\ iterated.tag = "entries" /\ again = NotIterated
    /\ again' = iter(index, data)
    /\ UNCHANGED <<made, data, index, iterated>>

NextIndex ==
    /\ At \/ Iter \/ IterAgain
    /\ UNCHANGED storeVars
    /\ UNCHANGED toolVars
    /\ UNCHANGED traversalVars

SpecIndex == InitIndex /\ [][NextIndex]_vars

\* ------------------------------------------------------- release tool
Crates == 1..MaxCrateInput

max_attempts == 3

\* A dependency of a package: its name and its DependencyKind.
Dependencies == [name : Crates, kind : {"Normal", "Development"}]

\* The names mentioned so far, by the request or by a dependency.
CratesNamed ==
    Range(crate_names)
    \cup UNION {{packages[c][i].name : i \in 1..Len(packages[c])} : c \in DOMAIN packages}

\* The part of the input not yet used up.
CrateBudget ==
    LET listed == DOMAIN packages
        F[S \in SUBSET listed] ==
            IF S = {} THEN 0
            ELSE LET c == CHOOSE x \in S : TRUE IN Len(packages[c]) + F[S \ {c}]
    IN  MaxCrateInput - Len(crate_names) - F[listed]

\* The dependency lists a package looked up for the first time may have:
\* names numbered by first mention.
DependencyLists ==
    {d \in SeqsUpTo(Dependencies, CrateBudget) :
        FirstMentionOrder([i \in 1..Len(d) |-> d[i].name], CratesNamed)}

\* meta.packages.iter().find(|p| &p.name == crate_name): None (listed |->
\* FALSE) only for a name no dependency lookup found to be a workspace member.
FindPackage(c) ==
    IF c \in DOMAIN packages THEN {[listed |-> TRUE, dependencies |-> packages[c]]}
    ELSE (IF c \in DOMAIN members /\ members[c] THEN {}
          ELSE {[listed |-> FALSE, dependencies |-> <<>>]})
         \cup {[listed |-> TRUE, dependencies |-> d] : d \in DependencyLists}

\* The dependencies the loop of release_depth_first looks at.
NormalNames(deps) ==
    LET n == SelectSeq(deps, LAMBDA d : d.kind = "Normal")
    IN  [i \in 1..Len(n) |-> n[i].name]

\* The answers is_workspace_member may give for the names asked.
MemberAnswers(asked) ==
    {m \in [asked -> BOOLEAN] :
        \A c \in asked : c \in DOMAIN members => m[c] = members[c]}

\* PushDependencies pushing every workspace member, seen or not.
RECURSIVE PushDependenciesUnseen(_, _, _)
PushDependenciesUnseen(ns, w, m) ==
    IF ns = <<>> THEN w
    ELSE LET d == Head(ns)
         IN  PushDependenciesUnseen(Tail(ns),
                 IF d \in DOMAIN m /\ ~m[d] THEN w
                 ELSE [seen |-> w.seen \cup {d}, names |-> Append(w.names, d)], m)

\* for dependency in package.dependencies.iter().filter(Normal) { ... }
RECURSIVE PushDependencies(_, _, _)
PushDependencies(ns, w, m) ==
    IF ns = <<>> THEN w
    ELSE LET d == Head(ns)
         IN  PushDependencies(Tail(ns),
                 IF d \in w.seen \/ ~m[d] THEN w
                 ELSE [seen |-> w.seen \cup {d}, names |-> Append(w.names, d)], m)

RECURSIVE Reverse(_)
Reverse(q) == IF q = <<>> THEN <<>> ELSE Append(Reverse(Tail(q)), Head(q))

\* What is done to the repository or the registry (real), or only logged.
Event(what, crate, real) == [what |-> what, crate |-> crate, real |-> real]

\* Whether a step acts or logs with dry_run set to act.
ActsAlways(dry_run) == TRUE

\* Whether a step acts (or only logs what it WOULD do).
Acts(dry_run) == ~dry_run

\* AfterAttempt retrying while attempt <= max_attempts.
AfterAttemptOneMore(n, status) ==
    IF status = "success" THEN "break"
    ELSE IF status = "io" THEN "err"
    ELSE IF n = max_attempts + 1 THEN "bail" ELSE "retry"

\* AfterAttempt leaving the loop after the last failed attempt.
AfterAttemptBreaks(n, status) ==
    IF status = "success" THEN "break"
    ELSE IF status = "io" THEN "err"
    ELSE IF n = max_attempts THEN "break" ELSE "retry"

\* How publish_crate goes on after attempt n ran `cargo publish`, with
\* status: "success", "failure" (exit status) or "io" (c.status() is Err).
AfterAttempt(n, status) ==
    IF status = "success" THEN "break"
    ELSE IF status = "io" THEN "err"
    ELSE IF n = max_attempts THEN "bail" ELSE "retry"

\* release_depth_first is called (by release, with at least one crate name).
InitRelease ==
    /\ NoTraversal
    /\ NoStore
    /\ NoIndex
    /\ NoExplode
    /\ options \in [dry_run : BOOLEAN, allow_dirty : BOOLEAN]
    /\ crate_names \in {n \in SeqsUpTo(Crates, MaxCrateInput) :
                          n # <<>> /\ FirstMentionOrder(n, {})}
    /\ packages = <<>>
    /\ members = <<>>
    /\ names_to_publish = <<>>
    /\ publish_index = 0
    /\ seen = {}
    /\ taken = 0
    /\ remaining = <<>>
    /\ processed = <<>>
    /\ pc = "build"
    /\ attempt = 0
    /\ events = <<>>
    /\ result = "none"

Fail ==
    /\ pc' = "done"
    /\ result' = "Err"

\* for crate_name in crate_names { names_to_publish.push(crate_name); ... }
PushRequested ==
    /\ pc = "build"
    /\ publish_index = Len(names_to_publish)
    /\ taken < Len(crate_names)
    /\ names_to_publish' = Append(names_to_publish, crate_names[taken + 1])
    /\ taken' = taken + 1
    /\ UNCHANGED <<options, crate_names, packages, members, publish_index, seen,
                   remaining, processed, pc, attempt, events, result>>

\* One turn of: while let Some(crate_name) = names_to_publish.get(index)
VisitPackage ==
    /\ pc = "build"
    /\ publish_index < Len(names_to_publish)
    /\ LET crate_name == names_to_publish[publish_index + 1]
       IN  \E p \in FindPackage(crate_name) :
            IF ~p.listed
            THEN /\ Fail
                 /\ UNCHANGED <<packages, members, names_to_publish, publish_index,
                                seen>>
            ELSE LET ns == NormalNames(p.dependencies)
                 IN  \E m \in MemberAnswers(Range(ns) \ seen) :
                     LET w == PushDependencies(ns,
                                  [seen |-> seen, names |-> names_to_publish],
                                  [c \in Range(ns) |-> IF c \in seen THEN TRUE ELSE m[c]])
                     IN  /\ packages' = (crate_name :> p.dependencies) @@ packages
                         /\ members' = m @@ members
                         /\ seen' = w.seen
                         /\ names_to_publish' = w.names
                         /\ publish_index' = publish_index + 1
                         /\ UNCHANGED <<pc, result>>
    /\ UNCHANGED <<options, crate_names, taken, remaining, processed, attempt,
                   events>>

\* for crate_name in names_to_publish.iter().rev()
BeginRelease ==
    /\ pc = "build"
    /\ publish_index = Len(names_to_publish)
    /\ taken = Len(crate_names)
    /\ remaining' = Reverse(names_to_publish)
    /\ pc' = "next"
    /\ UNCHANGED <<options, crate_names, packages, members, names_to_publish,
                   publish_index, seen, taken, processed, attempt, events, result>>

\* The loop takes the next crate: changed_since_last_release(package, &state)?
NextCrate ==
    /\ pc = "next"
    /\ remaining # <<>>
    /\ processed' = Append(processed, Head(remaining))
    /\ \E changed \in {"yes", "no", "err"} :
        CASE changed = "yes" ->
                 /\ pc' = "perform_release"
                 /\ UNCHANGED <<remaining, events, result>>
          [] changed = "no" ->
                 /\ remaining' = Tail(remaining)
                 /\ events' = Append(events, Event("skipped", Head(remaining), FALSE))
                 /\ UNCHANGED <<pc, result>>
          [] changed = "err" ->
                 /\ Fail
                 /\ UNCHANGED <<remaining, events>>
    /\ UNCHANGED <<options, crate_names, packages, members, names_to_publish,
                   publish_index, seen, taken, attempt>>

\* perform_release up to edit_manifest_and_fixup_dependent_crates(..)?
EditManifest ==
    /\ pc = "perform_release"
    /\ LET c == Head(remaining)
       IN \E how \in {"ok", "commit_failed", "failed"}
                     \cup (IF options.allow_dirty THEN {} ELSE {"dirty"}) :
           CASE how \in {"failed", "dirty"} ->
                    /\ Fail
                    /\ UNCHANGED <<attempt, events>>
             [] how = "commit_failed" /\ Acts(options.dry_run) ->
                    /\ Fail
                    /\ events' = Append(events, Event("manifests", c, TRUE))
                    /\ UNCHANGED attempt
             [] OTHER ->
                    /\ events' =
                           IF Acts(options.dry_run)
                           THEN events \o <<Event("manifests", c, TRUE),
                                            Event("commit", c, TRUE)>>
                           ELSE Append(events, Event("commit", c, FALSE))
                    /\ pc' = "publish"
                    /\ attempt' = 1
                    /\ UNCHANGED result
    /\ UNCHANGED <<options, crate_names, packages, members, names_to_publish,
                   publish_index, seen, taken, remaining, processed>>

\* One turn of: for attempt in 1..=max_attempts (publish_crate)
PublishAttempt ==
    /\ pc = "publish"
    /\ LET c == Head(remaining)
       IN  IF ~Acts(options.dry_run)
           THEN /\ events' = Append(events, Event("publish", c, FALSE))
                /\ pc' = "tag"
                /\ UNCHANGED <<attempt, result>>
           ELSE \E status \in {"success", "failure", "io"} :
                /\ events' = Append(events, Event(status, c, TRUE))
                /\ CASE AfterAttempt(attempt, status) = "break" ->
                            pc' = "tag" /\ UNCHANGED <<attempt, result>>
                     [] AfterAttempt(attempt, status) = "retry" ->
                            attempt' = attempt + 1 /\ UNCHANGED <<pc, result>>
                     [] OTHER -> Fail /\ UNCHANGED attempt
    /\ UNCHANGED <<options, crate_names, packages, members, names_to_publish,
                   publish_index, seen, taken, remaining, processed>>

\* The tag of the released crate: logged, or created with Create::Only.
CreateTag ==
    /\ pc = "tag"
    /\ LET c == Head(remaining)
       IN  IF ~Acts(options.dry_run)
           THEN /\ events' = Append(events, Event("tag", c, FALSE))
                /\ remaining' = Tail(remaining)
                /\ pc' = "next"
                /\ UNCHANGED result
           ELSE \E created \in BOOLEAN :
                IF created
                THEN /\ events' = Append(events, Event("tag", c, TRUE))
                     /\ remaining' = Tail(remaining)
                     /\ pc' = "next"
                     /\ UNCHANGED result
                ELSE /\ Fail
                     /\ UNCHANGED <<remaining, events>>
    /\ UNCHANGED <<options, crate_names, packages, members, names_to_publish,
                   publish_index, seen, taken, processed, attempt>>

\* Ok(()) behind the second loop.
ReturnOk ==
    /\ pc = "next"
    /\ remaining = <<>>
    /\ pc' = "done"
    /\ result' = "Ok"
    /\ UNCHANGED <<options, crate_names, packages, members, names_to_publish,
                   publish_index, seen, taken, remaining, processed, attempt, events>>

NextDepthFirst ==
    /\ \/ PushRequested
       \/ VisitPackage
       \/ BeginRelease
       \/ NextCrate
       \/ EditManifest
       \/ PublishAttempt
       \/ CreateTag
       \/ ReturnOk
    /\ UNCHANGED <<traversalVars, storeVars, indexVars, explodeVars>>

\* Releases in which git and cargo do what they are asked and every crate
\* changed since its last release: the list of crates and its order.
NoTrouble == result' # "Err" /\ (events' = events \/ events'[Len(events')].what # "skipped")

NextList == NextDepthFirst /\ (pc # "build" => NoTrouble)

InitList == InitRelease /\ options.dry_run /\ ~options.allow_dirty

SpecList == InitList /\ [][NextList]_vars

\* Releases of crates without workspace dependencies: the steps of each.
NextRelease == NextDepthFirst /\ (\A c \in DOMAIN packages' : packages'[c] = <<>>)

SpecRelease == InitRelease /\ [][NextRelease]_vars

\* ------------------------------------------------------ pack explosion
\* What happens to one object of the pack: its kind, whether write_buf fails
\* ("err"), returns the id of the index entry ("same") or another id
\* ("other"), and what reading the written object back gives.
Fates ==
    {f \in [kind : {"Tree", "Blob"}, write : {"same", "other", "err"},
            check : {"ok", "corrupt", "missing", "checksum"}] :
        /\ f.write = "err" => f.kind = "Blob" /\ f.check = "ok"
        /\ f.write = "same" => f.kind = "Blob"
        /\ (f.kind = "Blob" /\ f.write = "other") => f.check = "ok"}

\* let object_verifier = if verify { object_path.as_ref().map(..) } else { None }
object_verifier(ctx) == ctx.verify /\ ctx.object_path = "dir"

\* The closure without the verification of the written object.
ProcessorNoVerify(f, ctx) ==
    IF f.write = "err" THEN "Err"
    ELSE IF f.write = "other" /\ f.kind # "Tree" THEN "Err"
    ELSE "Ok"

\* The closure handed to traverse, on one object.
Processor(f, ctx) ==
    IF f.write = "err" THEN "Err"
    ELSE IF f.write = "other" /\ f.kind # "Tree" THEN "Err"
    ELSE IF object_verifier(ctx) /\ f.check # "ok" THEN "Err"
    ELSE "Ok"

\* RemovalOrder with the data file first.
RemovalOrderDataFirst == <<"data", "index">>

\* fs::remove_file(&index_path).and_then(|_| fs::remove_file(&data_path))
RemovalOrder == <<"index", "data">>

InitExplode ==
    /\ NoTraversal
    /\ NoStore
    /\ NoIndex
    /\ NoRelease
    /\ context \in [delete_pack : BOOLEAN, verify : BOOLEAN,
                    object_path : {"none", "dir", "nodir"}]
    /\ entries \in SeqsUpTo(Fates, MaxObjects)
    /\ explode_pc = "open"
    /\ handled = 0
    /\ on_disk = {"index", "data"}
    /\ removals = <<>>
    /\ returned = "none"

ReturnErr ==
    /\ explode_pc' = "done"
    /\ returned' = "Err"

\* pack::Bundle::at(path)? and the check of the object directory.
OpenBundle ==
    /\ explode_pc = "open"
    /\ \E opened \in BOOLEAN :
        IF ~opened \/ context.object_path = "nodir"
        THEN ReturnErr
        ELSE explode_pc' = "traverse" /\ UNCHANGED returned
    /\ UNCHANGED <<context, entries, handled, on_disk, removals>>

\* bundle.index.traverse(..): the next object is handed to the closure, whose
\* error ends the traversal with an error.
TraverseObject ==
    /\ explode_pc = "traverse"
    /\ handled < Len(entries)
    /\ handled' = handled + 1
    /\ IF Processor(entries[handled + 1], context) = "Err"
       THEN ReturnErr
       ELSE UNCHANGED <<explode_pc, returned>>
    /\ UNCHANGED <<context, entries, on_disk, removals>>

\* bundle.index.traverse(..) fails by itself: checksum, decoding, interrupt.
TraverseFails ==
    /\ explode_pc = "traverse"
    /\ ReturnErr
    /\ UNCHANGED <<context, entries, handled, on_disk, removals>>

\* traverse returned Ok: drop(bundle); if delete_pack { .. }
TraverseDone ==
    /\ explode_pc = "traverse"
    /\ handled = Len(entries)
    /\ IF context.delete_pack
       THEN explode_pc' = "remove" /\ UNCHANGED returned
       ELSE explode_pc' = "done" /\ returned' = "Ok"
    /\ UNCHANGED <<context, entries, handled, on_disk, removals>>

\* One fs::remove_file of the chain.
RemoveFile ==
    /\ explode_pc = "remove"
    /\ LET file == RemovalOrder[Len(removals) + 1]
       IN  \E removed \in BOOLEAN :
            IF removed
            THEN /\ on_disk' = on_disk \ {file}
                 /\ removals' = Append(removals, file)
                 /\ IF Len(removals') = Len(RemovalOrder)
                    THEN explode_pc' = "done" /\ returned' = "Ok"
                    ELSE UNCHANGED <<explode_pc, returned>>
            ELSE /\ ReturnErr
                 /\ UNCHANGED <<on_disk, removals>>
    /\ UNCHANGED <<context, entries, handled>>

NextExplode ==
    /\ \/ OpenBundle
       \/ TraverseObject
       \/ TraverseFails
       \/ TraverseDone
       \/ RemoveFile
    /\ UNCHANGED <<traversalVars, storeVars, indexVars, releaseVars>>

SpecExplode == InitExplode /\ [][NextExplode]_vars

\* ---------------------------------------------------------- properties
Oids(items) == [i \in 1..Len(items) |-> items[i].oid]

OkIds == {out[i].oid : i \in {j \in 1..Len(out) : out[j].tag = "Ok"}}

\* s without the later occurrences of its elements.
RECURSIVE KeepFirst(_)
KeepFirst(s) ==
    IF s = <<>> THEN <<>>
    ELSE LET r == KeepFirst(SubSeq(s, 1, Len(s) - 1))
         IN  IF s[Len(s)] \in Range(r) THEN r ELSE Append(r, s[Len(s)])

Pos(x, s) == CHOOSE i \in 1..Len(s) : s[i] = x

\* The step is a next() call that returned Some(item).
Returned == out' # out

\* The commits whose parent tokens the traversal has examined.
Expanded == {i \in DOMAIN commits : commits[i].tree}

\* How often id occurs among the parent tokens the traversal has examined.
ParentMentions(id) ==
    Cardinality({<<c, k>> \in Expanded \X (1..MaxInput) :
                     /\ k <= Len(LookedUp(commits[c], mode))
                     /\ commits[c].parents[k] = id})

\* How often id is mentioned as a tip or as an examined parent token.
Mentions(id) ==
    Cardinality({i \in 1..Len(tips) : tips[i] = id}) + ParentMentions(id)

\* C1, one call: the id returned as Ok was at the front of the pending queue
\* before the call, the call removes it from there, and no earlier call
\* returned it.
C1_DequeueStep ==
    (Returned /\ last'.tag = "Ok") =>
        /\ state.next # <<>>
        /\ last'.oid = Head(state.next)
        /\ Len(state'.next) >= Len(state.next) - 1
        /\ SubSeq(state'.next, 1, Len(state.next) - 1) = Tail(state.next)
        /\ last'.oid \notin Range(state'.next)
        /\ last'.oid \notin OkIds

\* C1: over one traversal, for any graph, tips, predicate, Parents and Sorting
\* mode, no id is returned as Ok twice, and an id is returned by the call that
\* removes it from the front of the pending queue.
C1_OncePerIdAtDequeue == [][C1_DequeueStep]_vars

\* C1 witness: an id that two examined parent tokens name has been returned
\* and the traversal is drained.
C1_Witness ==
    /\ stage = "iter" /\ last = NoItem
    /\ \E x \in OkIds : ParentMentions(x) >= 2

\* C2: an id the predicate rejected is in seen, is not pending and has not
\* been returned by next(), however often it is reached.
C2_RejectedSeenNeverWalked ==
    \A x \in rejected :
        /\ x \in state.seen
        /\ x \notin Range(state.next)
        /\ x \notin Range(Oids(out))

\* C2 witness: a rejected id has been reached again as a parent of a commit
\* decoded later, and the traversal is drained.
C2_Witness ==
    /\ stage = "iter" /\ last = NoItem /\ mode = "All"
    /\ \E x \in rejected : Mentions(x) >= 2 /\ ParentMentions(x) >= 1

\* C3: right after Ancestors::filtered, seen is the set of tips and the
\* pending queue is the accepted tips, in tip order, each once; a rejected
\* tip is in seen and not pending.
C3_AfterFiltered ==
    stage = "built" =>
        /\ state.seen = Range(tips)
        /\ state.next = SelectSeq(KeepFirst(tips), LAMBDA x : x \in accepted)
        /\ accepted \cup rejected = Range(tips)
        /\ \A x \in rejected : x \in state.seen /\ x \notin Range(state.next)

\* C3 witness: construction from tips with a duplicate, a rejected and an
\* accepted tip.
C3_Witness ==
    /\ stage = "built"
    /\ Len(tips) > Cardinality(Range(tips))
    /\ rejected # {}
    /\ state.next # <<>>
\* C4, one call: the head of the pending queue is removed and returned, and
\* the parents the call examines (all of them, the first with Parents::First)
\* that were not yet seen and pass the predicate are appended behind the rest
\* of the queue in the order the commit lists them.
C4_FifoStep ==
    (Returned /\ sorting = "GraphOrder") =>
        LET oid == Head(state.next)
            ps == IF oid \in DOMAIN commits' /\ commits'[oid].tree
                  THEN LookedUp(commits'[oid], mode) ELSE <<>>
            fresh == SelectSeq(KeepFirst(ps),
                               LAMBDA x : x \notin state.seen /\ x \in accepted')
        IN  /\ last'.oid = oid
            /\ state'.next = Tail(state.next) \o fresh
            /\ Oids(out') \o state'.next = (Oids(out) \o state.next) \o fresh

\* C4: Sorting::GraphOrder is strict FIFO: every next() pops the head and
\* appends the new accepted parents at the back in listed order, so ids are
\* returned in the order in which they were enqueued.
C4_GraphOrderFifo == [][C4_FifoStep]_vars

\* C4 witness: a GraphOrder call has appended two parents behind a tip that
\* was still pending.
C4_Witness ==
    /\ sorting = "GraphOrder" /\ mode = "All"
    /\ Len(out) = 1 /\ Len(tips) = 2 /\ Len(state.next) = 3
    /\ state.next[1] = tips[2]

\* The ids on the first-parent line of id, by the commits decoded so far.
RECURSIVE FirstParentChain(_, _)
FirstParentChain(id, visited) ==
    IF id \in visited THEN visited
    ELSE IF id \in Expanded /\ commits[id].parents # <<>>
         THEN FirstParentChain(commits[id].parents[1], visited \cup {id})
         ELSE visited \cup {id}

\* C5: with Parents::First and a single tip M, in either sorting mode, every
\* id returned, pending, seen or looked up lies on the first-parent line of M.
C5_FirstParentOnly ==
    (mode = "First" /\ Len(tips) = 1) =>
        LET chain == FirstParentChain(tips[1], {})
        IN  /\ Range(Oids(out)) \subseteq chain
            /\ Range(state.next) \subseteq chain
            /\ state.seen \subseteq chain
            /\ (DOMAIN commits \cup DOMAIN dates \cup absent) \subseteq chain

\* C5 witness: a drained Parents::First traversal from a merge commit whose
\* first parent was returned and whose second parent is off the first-parent
\* line.
C5_Witness ==
    /\ mode = "First" /\ Len(tips) = 1 /\ stage = "iter" /\ last = NoItem
    /\ tips[1] \in Expanded
    /\ Len(commits[tips[1]].parents) >= 2
    /\ commits[tips[1]].parents[2] \notin FirstParentChain(tips[1], {})
    /\ commits[tips[1]].parents[1] \in OkIds

\* C6, enqueueing: a ByCommitterDate call that expands a commit puts, of two
\* examined parents that were unseen and are accepted, the one with the later
\* committer date into the pending queue first.
C6_EnqueueStep ==
    (Returned /\ sorting = "ByCommitterDate" /\ last'.tag = "Ok") =>
        LET ps == Range(LookedUp(commits'[last'.oid], mode)) \ state.seen
        IN  \A p1, p2 \in ps \cap accepted' \cap DOMAIN dates' :
                (1 <= dates'[p1] /\ dates'[p1] < dates'[p2]) =>
                    /\ {p1, p2} \subseteq Range(state'.next)
                    /\ Pos(p2, state'.next) < Pos(p1, state'.next)

\* C6, returning: started from a single merge commit M, the accepted parent
\* with the later date precedes the other in the order of returned and
\* pending ids, whatever the order in which M lists them.
C6_ReturnOrder ==
    (/\ sorting = "ByCommitterDate" /\ mode = "All" /\ Len(tips) = 1
     /\ OkItem(tips[1]) \in Range(out)) =>
        LET M == tips[1]
            order == Oids(out) \o state.next
        IN  \A p1, p2 \in (Range(commits[M].parents) \ {M}) \cap accepted \cap DOMAIN dates :
                (1 <= dates[p1] /\ dates[p1] < dates[p2]) =>
                    /\ {p1, p2} \subseteq Range(order)
                    /\ Pos(p2, order) < Pos(p1, order)

\* C6: in ByCommitterDate the parents of one dequeued commit are enqueued, and
\* so returned, in descending order of committer date.
C6_DescendingDate == [][C6_EnqueueStep]_vars /\ []C6_ReturnOrder

\* C6 witness: M lists P1 (earlier date) before P2 (later date) and P2 was
\* returned before P1.
C6_Witness ==
    /\ sorting = "ByCommitterDate" /\ mode = "All" /\ Len(tips) = 1
    /\ tips[1] \in Expanded
    /\ Len(commits[tips[1]].parents) = 2
    /\ LET p1 == commits[tips[1]].parents[1]
           p2 == commits[tips[1]].parents[2]
       IN  /\ {p1, p2} \subseteq DOMAIN dates
           /\ 1 <= dates[p1] /\ dates[p1] < dates[p2]
           /\ {p1, p2} \subseteq OkIds
           /\ Pos(p2, Oids(out)) < Pos(p1, Oids(out))

\* An id that an earlier ByCommitterDate call looked up as a parent and that
\* furnished no committer date (find returned None, or no committer).
Dropped(x) ==
    /\ sorting = "ByCommitterDate"
    /\ ParentMentions(x) >= 1
    /\ x \in absent \/ (x \in DOMAIN dates /\ dates[x] = 0)

NewlyPending(x) == x \in Range(state'.next) /\ x \notin Range(state.next)

\* C7 as claimed, one call: an id dropped earlier for want of a committer date
\* is neither enqueued nor returned as Ok by this call.
C7_DroppedStep ==
    \A x \in Ids : Dropped(x) =>
        /\ ~NewlyPending(x)
        /\ ~(Returned /\ last' = OkItem(x))

\* C7 as claimed: in ByCommitterDate a parent that furnishes no committer date
\* is dropped and is never enqueued or returned at any later call.
C7_DroppedNeverReturned == [][C7_DroppedStep]_vars

\* C7 as amended, one call: a call that returns Ok neither marks seen nor
\* enqueues a parent it looked up that furnishes no date; an id dropped
\* earlier is not enqueued, and is returned only when it is one of the tips.
C7_AmendedStep ==
    /\ (Returned /\ sorting = "ByCommitterDate" /\ last'.tag = "Ok") =>
           \A p \in Range(LookedUp(commits'[last'.oid], mode)) :
               (p \in absent' \/ dates'[p] = 0) =>
                   /\ p \in state'.seen => p \in state.seen
                   /\ ~NewlyPending(p)
    /\ \A x \in Ids : Dropped(x) =>
           /\ ~NewlyPending(x)
           /\ (Returned /\ last' = OkItem(x)) => x \in Range(tips)

\* C7 as amended: in ByCommitterDate a parent that furnishes no committer date
\* is dropped without an error and is never enqueued at any later call; it is
\* returned later only if it was already pending as a tip.
C7_DroppedOnlyTipsReturn == [][C7_AmendedStep]_vars

\* C7 witness: a drained ByCommitterDate traversal in which a parent without a
\* date was dropped by a call that returned Ok and was never seen.
C7_Witness ==
    /\ sorting = "ByCommitterDate" /\ stage = "iter" /\ last = NoItem
    /\ \E c \in OkIds : \E x \in Range(LookedUp(commits[c], mode)) :
           /\ Dropped(x)
           /\ x \notin state.seen

\* C8, one call: a next() whose find returns None for the id it dequeued
\* returns Err(NotFound) carrying that id.
C8_NotFoundStep ==
    (Returned /\ Head(state.next) \in absent') => last' = NotFound(Head(state.next))

\* C8: in both sorting modes an id the lookup does not have is answered with
\* Err(NotFound{oid}) when dequeued and is never returned as Ok.
C8_AbsentIsNotFound == [][C8_NotFoundStep]_vars /\ [](absent \cap OkIds = {})

\* C8 witness: both a tip and a parent reached in GraphOrder were answered
\* with NotFound.
C8_Witness ==
    \E i, j \in 1..Len(out) :
        /\ out[i].tag = "NotFound" /\ out[i].oid \in Range(tips)
        /\ out[j].tag = "NotFound" /\ out[j].oid \notin Range(tips)

\* The ids reachable from S over the parent tokens of the decoded commits.
RECURSIVE ReachFrom(_)
ReachFrom(S) ==
    LET n == S \cup UNION {Range(commits[c].parents) : c \in S \cap Expanded}
    IN  IF n = S THEN S ELSE ReachFrom(n)

\* C9: with Parents::All and a predicate that accepts everything, a complete
\* run (next() until None), in every sorting mode, holds an Err(NotFound) item
\* for each commit reachable from a tip that the lookup does not have.
C9_AbsentReachableReported ==
    (mode = "All" /\ rejected = {} /\ stage = "iter" /\ last = NoItem) =>
        \A x \in ReachFrom(Range(tips)) \cap absent : NotFound(x) \in Range(out)

\* C10, one call: a next() that meets a decode failure on the tree token or
\* on a parent token of the commit it dequeued returns Err(ObjectDecode).
C10_DecodeStep ==
    (Returned /\ Head(state.next) \in DOMAIN commits') =>
        LET c == commits'[Head(state.next)]
        IN  (~c.tree \/ (c.perr /\ (mode = "All" \/ c.parents = <<>>))) =>
                last' = ObjectDecode(Head(state.next))

\* C10, the id: a commit whose decoding failed is not among the ids
\* returned as Ok.
C10_FailedNeverOk ==
    \A x \in DOMAIN commits :
        (~commits[x].tree
         \/ (commits[x].perr /\ (mode = "All" \/ commits[x].parents = <<>>))) =>
            x \notin OkIds

\* C10: in either sorting mode a decode failure on the tree token or on a
\* parent token makes next() return Err(ObjectDecode), never Ok(id).
C10_DecodeFailureIsErr == [][C10_DecodeStep]_vars /\ []C10_FailedNeverOk

\* C10 witness: a ByCommitterDate traversal returned ObjectDecode for a commit
\* whose tree token failed and for a commit whose token behind a parent failed.
C10_Witness ==
    /\ sorting = "ByCommitterDate"
    /\ \E i, j \in 1..Len(out) :
        /\ out[i].tag = "ObjectDecode" /\ ~commits[out[i].oid].tree
        /\ out[j].tag = "ObjectDecode" /\ commits[out[j].oid].perr
        /\ commits[out[j].oid].parents # <<>>

\* A next() call: the iterator exists and the step is none of the builders.
NextCalled ==
    /\ stage \in {"built", "iter"}
    /\ stage' = "iter"
    /\ tips' = tips /\ mode' = mode /\ sorting' = sorting

\* C11: once the pending queue is empty, every further next(), in both sorting
\* modes, returns None, leaves pending, buffer and seen as they are, looks
\* nothing up and does not call the predicate.
C11_DrainedStep ==
    (NextCalled /\ state.next = <<>>) =>
        /\ last'.tag = "None"
        /\ out' = out
        /\ state' = state
        /\ absent' = absent /\ commits' = commits /\ dates' = dates
        /\ accepted' = accepted /\ rejected' = rejected

C11_DrainedIsIdempotent == [][C11_DrainedStep]_vars

\* C11 witness: a ByCommitterDate traversal that returned items and then None.
C11_Witness ==
    /\ sorting = "ByCommitterDate" /\ stage = "iter"
    /\ last.tag = "None" /\ state.next = <<>>
    /\ Len(out) >= 2

IsPrefix(s, t) == Len(s) <= Len(t) /\ SubSeq(t, 1, Len(s)) = s

WellFormed(ps) == [tree |-> TRUE, parents |-> ps, perr |-> FALSE]

\* The commits decoded so far are those of the graph g (id -> parent list),
\* and no id of g is absent or rejected.
WorldWithin(g) ==
    /\ \A i \in DOMAIN commits : i \in DOMAIN g /\ commits[i] = WellFormed(g[i])
    /\ absent \cap DOMAIN g = {}
    /\ rejected \cap DOMAIN g = {}

GraphOrderAllFrom(A) ==
    /\ stage = "iter" /\ mode = "All" /\ sorting = "GraphOrder" /\ tips = <<A>>

Drained == stage = "iter" /\ last.tag = "None" /\ state.next = <<>>

\* C12 as claimed: in the chain where A is the parent of B and B is the parent
\* of C (B lists A, C lists B), the GraphOrder, Parents::All traversal from the
\* single tip A returns exactly [A, B, C].
C12_ChainFromRoot ==
    \A A, B, C \in Ids :
        (/\ Cardinality({A, B, C}) = 3
         /\ GraphOrderAllFrom(A) /\ Drained
         /\ WorldWithin((A :> <<>>) @@ (B :> <<A>>) @@ (C :> <<B>>))) =>
            out = <<OkItem(A), OkItem(B), OkItem(C)>>

\* C12 as amended: in the chain where B is the parent of A and C is the parent
\* of B (A lists B, B lists C), the GraphOrder, Parents::All traversal from the
\* single tip A returns a prefix of [A, B, C] at every call and exactly
\* [A, B, C], each once, when it is drained.
C12_ChainFromHead ==
    \A A, B, C \in Ids :
        (/\ Cardinality({A, B, C}) = 3
         /\ GraphOrderAllFrom(A)
         /\ WorldWithin((A :> <<B>>) @@ (B :> <<C>>) @@ (C :> <<>>))) =>
            /\ IsPrefix(out, <<OkItem(A), OkItem(B), OkItem(C)>>)
            /\ Drained => out = <<OkItem(A), OkItem(B), OkItem(C)>>

\* C12 witness: the drained traversal of the chain A -> B -> C from A.
C12_Witness ==
    /\ GraphOrderAllFrom(1) /\ Drained
    /\ DOMAIN commits = {1, 2, 3}
    /\ WorldWithin((1 :> <<2>>) @@ (2 :> <<3>>) @@ (3 :> <<>>))

\* C13: a traversal from a single accepted tip whose commit has no parent
\* tokens returns Ok(tip) on the first next() and None on every later one, in
\* both sorting modes.
C13_SingleTipStep ==
    (/\ NextCalled /\ Len(tips) = 1 /\ rejected = {}
     /\ tips[1] \in DOMAIN commits' /\ commits'[tips[1]] = WellFormed(<<>>)) =>
        /\ stage = "built" => (last' = OkItem(tips[1]) /\ out' = <<OkItem(tips[1])>>)
        /\ stage = "iter" => (last'.tag = "None" /\ out' = out)

C13_SingleTipOnly == [][C13_SingleTipStep]_vars

\* C13 witness: a ByCommitterDate traversal from such a tip returned Ok(tip)
\* and then None.
C13_Witness ==
    /\ sorting = "ByCommitterDate" /\ Len(tips) = 1 /\ rejected = {}
    /\ tips[1] \in DOMAIN commits /\ commits[tips[1]] = WellFormed(<<>>)
    /\ out = <<OkItem(tips[1])>> /\ last.tag = "None"

\* The parents a decoded commit lists (none for an id not decoded).
ParentsOf(id) ==
    IF id \in DOMAIN commits THEN Range(commits[id].parents) ELSE {}

\* Shortest parent-edge distance of x from the set of tips in the graph of the
\* commits decoded so far; MaxInput + 1 when x is not reached.
RECURSIVE DistFrom(_, _, _, _)
DistFrom(frontier, visited, d, x) ==
    IF x \in frontier THEN d
    ELSE IF frontier = {} THEN MaxInput + 1
    ELSE DistFrom((UNION {ParentsOf(f) : f \in frontier}) \ (visited \cup frontier),
                  visited \cup frontier, d + 1, x)

Dist(x) == DistFrom(Range(tips), {}, 0, x)

AcceptAllGraphOrder ==
    /\ stage = "iter" /\ mode = "All" /\ sorting = "GraphOrder" /\ rejected = {}

\* C15: with Sorting::GraphOrder, Parents::All and a predicate that accepts
\* everything, ids are returned in non-decreasing order of their shortest
\* parent-edge distance from the set of tips; all tips come before any id that
\* is not a tip.
C15_BreadthFirst ==
    AcceptAllGraphOrder =>
        \A i, j \in DOMAIN out :
            i < j => /\ Dist(out[i].oid) <= Dist(out[j].oid)
                     /\ out[j].oid \in Range(tips) => out[i].oid \in Range(tips)

\* C15 witness: a drained walk from two tips that went two parent edges deep.
C15_Witness ==
    /\ AcceptAllGraphOrder /\ Drained
    /\ Cardinality(Range(tips)) >= 2
    /\ \E i \in DOMAIN out : out[i].tag = "Ok" /\ Dist(out[i].oid) = 2

\* C16: a ByCommitterDate next() that returns an item takes the front of the
\* queue and leaves every other pending id where it was; what it enqueues
\* goes behind them.  So the order of return follows the order of enqueueing
\* across calls, whatever the dates.
C16_AppendStep ==
    (NextCalled /\ sorting = "ByCommitterDate" /\ state.next # <<>>) =>
        /\ last'.oid = Head(state.next)
        /\ IsPrefix(Tail(state.next), state'.next)
        /\ IsPrefix(Oids(out) \o state.next, Oids(out') \o state'.next)

C16_BatchBehindPending == [][C16_AppendStep]_vars

\* C16 witness: x was enqueued by an earlier call than y and has the older
\* committer date, and x was returned before y.
C16_Witness ==
    /\ sorting = "ByCommitterDate" /\ stage = "iter"
    /\ \E i, j \in DOMAIN out :
        LET x == out[i].oid
            y == out[j].oid
        IN  /\ i < j /\ out[i].tag = "Ok" /\ out[j].tag = "Ok"
            /\ x \in DOMAIN dates /\ y \in DOMAIN dates
            /\ dates[x] < dates[y]
            /\ \E k \in DOMAIN out :
                /\ k < i
                /\ x \in ParentsOf(out[k].oid)
                /\ y \notin ParentsOf(out[k].oid)
                /\ y \notin ParentsOf(x)

\* The backends that hold the id, packed or loose.
Holders == {i \in DOMAIN dbs : dbs[i].packed.bundle # 0 \/ dbs[i].loose # "no"}

FirstHolder == CHOOSE i \in Holders : \A j \in Holders : i <= j

\* C17: contains(id) returns true if and only if at least one backend has the
\* id in one of its pack bundles or in its loose store.
C17_ContainsIffHeld ==
    contained # Uncalled => (contained.tag = "true" <=> Holders # {})

\* C17 witness: contains is true for an id held by the second backend only,
\* and only loose.
C17_Witness ==
    /\ contained.tag = "true"
    /\ Holders = {2}
    /\ dbs[2].packed.bundle = 0

\* C18 as claimed: contains(id) is true if and only if find returns Some
\* object.
C18_ContainsIffFound ==
    (contained # Uncalled /\ found # Uncalled) =>
        (contained.tag = "true" <=> found.tag = "Some")

\* The first backend holding the id reads its copy without failure.
FirstHolderReads ==
    LET db == dbs[FirstHolder]
    IN  IF db.packed.bundle # 0 THEN db.packed.ok ELSE db.loose = "ok"

\* C18 as amended: if find returns Some object then contains(id) is true; if
\* contains(id) is false then find returns Ok(None); and the two agree in both
\* directions whenever the first backend holding the id reads its copy.
C18_FoundImpliesContained ==
    (contained # Uncalled /\ found # Uncalled) =>
        /\ found.tag = "Some" => contained.tag = "true"
        /\ contained.tag = "false" => found = OkNone
        /\ (Holders # {} /\ FirstHolderReads) =>
               (contained.tag = "true" /\ found.tag = "Some")

\* C18 witness: both were called on an id held loose and readable.
C18_Witness ==
    /\ contained.tag = "true" /\ found.tag = "Some"
    /\ found.location = 0
    /\ Len(dbs) = 2

\* C19: find's result comes from the first backend in list order that holds
\* the id, never from a later one; it is that backend's packed copy when it
\* has one, whatever it holds loose; and the result carries a pack location
\* exactly when it was served from a pack.
C19_FirstMatchWins ==
    (found # Uncalled /\ Holders # {}) =>
        LET db == dbs[FirstHolder]
        IN  /\ found.db \in {0, FirstHolder}
            /\ found.tag = "Some" =>
                /\ found.db = FirstHolder
                /\ found.location # 0 <=> db.packed.bundle # 0
                /\ found.location = db.packed.bundle
            /\ (db.packed.bundle # 0 /\ db.packed.ok) =>
                   found = OkSome(FirstHolder, db.packed.bundle)
            /\ (db.packed.bundle = 0 /\ db.loose = "ok") =>
                   found = OkSome(FirstHolder, 0)

\* C19 witness: the first backend holds the id packed and loose, the second
\* holds it too, and find served the first backend's packed copy.
C19_Witness ==
    /\ Len(dbs) = 2 /\ Holders = {1, 2}
    /\ dbs[1].packed.bundle # 0 /\ dbs[1].loose = "ok"
    /\ found = OkSome(1, dbs[1].packed.bundle)

\* C20: for an id that no backend holds, packed or loose, find returns
\* Ok(None) and contains returns false; neither reports an error.
C20_AbsentIsOkNone ==
    Holders = {} =>
        /\ found # Uncalled => found = OkNone
        /\ contained # Uncalled => contained.tag = "false"

\* C20 witness: both were called on an id that none of two backends holds.
C20_Witness ==
    /\ Len(dbs) = 2 /\ Holders = {}
    /\ found = OkNone /\ contained.tag = "false"

\* The traversal now running is the one that ran on the fresh State.
SameTraversal ==
    /\ first.set /\ stage = "iter"
    /\ tips = first.tips /\ mode = first.mode /\ sorting = first.sorting

\* C14 (construction): building a traversal on a used State leaves the State
\* exactly as building it on a fresh State does.
C14_ReuseStep ==
    (stage \in {"built", "iter"} /\ stage' = "built") =>
        LET w == TipsLoop(tips', [next |-> <<>>, seen |-> {}, asked |-> {}],
                          accepted')
        IN  state' = [next |-> w.next, buf |-> 0, seen |-> w.seen]

\* C14 (sequence): a traversal on a used State returns what the same traversal
\* returned on the fresh State: one sequence is a prefix of the other, and a
\* traversal that ended has the whole of it.
C14_SameSequence ==
    SameTraversal =>
        /\ IsPrefix(out, first.out) \/ IsPrefix(first.out, out)
        /\ first.done => IsPrefix(out, first.out)
        /\ Drained => IsPrefix(first.out, out)

\* C14: a State may be reused; construction clears pending, buffer and seen
\* before the tips are inserted, so a traversal built on a State left over from
\* an earlier (finished, unfinished or failed) traversal returns the sequence
\* the same traversal returns when built on a fresh State.
C14_ReusedStateAsFresh == [][C14_ReuseStep]_vars /\ []C14_SameSequence

\* C14 witness: a traversal that returned several items and ended, repeated on
\* the State it left behind, returned them again and ended.
C14_Witness ==
    /\ SameTraversal /\ Drained
    /\ first.done /\ Len(first.out) >= 2
    /\ out = first.out
    /\ state.seen # {}

\* The first backend holding the id fails to read its copy: the packed entry
\* does not decode, or it has no packed copy and the loose read fails.
FirstHolderFails ==
    /\ Holders # {}
    /\ LET db == dbs[FirstHolder]
       IN  IF db.packed.bundle # 0 THEN ~db.packed.ok ELSE db.loose = "bad"

\* C21: when the first backend that holds the id fails while reading it, find
\* returns that backend's error, which is not Ok(None), and no later backend
\* that also holds the id is asked.
C21_FirstErrorReturned ==
    (found # Uncalled /\ FirstHolderFails) =>
        /\ found = ErrFrom(FirstHolder)
        /\ found # OkNone

\* C21 witness: the first backend's packed entry does not decode, the second
\* backend holds a readable copy, and find returned the first backend's error.
C21_Witness ==
    /\ Len(dbs) = 2 /\ Holders = {1, 2}
    /\ dbs[1].packed.bundle # 0 /\ ~dbs[1].packed.ok
    /\ dbs[2].loose = "ok"
    /\ found = ErrFrom(1)

\* The backends that hold the id in a pack bundle.
PackedIn == {i \in DOMAIN dbs : dbs[i].packed.bundle # 0}

FirstPacked == CHOOSE i \in PackedIn : \A j \in PackedIn : i <= j

\* C22 as claimed: location_by_oid returns Some(Location) if and only if some
\* backend holds the id in a pack bundle.
C22_LocatedIffPacked ==
    located # Uncalled => (located.tag = "Some" <=> PackedIn # {})

\* C22 as amended: location_by_oid returns Some(Location) if and only if some
\* backend holds the id in a pack bundle and the entry of the first such
\* backend decompresses; the Location then carries the pack id, pack offset
\* and index entry number of that backend's bundle; an id held only loose, or
\* whose first packed entry does not decompress, gives None.
C22_LocatedIffFirstPackedInflates ==
    located # Uncalled =>
        IF PackedIn # {} /\ dbs[FirstPacked].packed.inflates
        THEN located = LocationOf(FirstPacked, dbs[FirstPacked].packed.bundle)
        ELSE located = NoLocation

\* C22 witness: the first backend holds the id loose only, the second in
\* a pack bundle; the Location is the second's.
C22_Witness ==
    /\ Len(dbs) = 2
    /\ dbs[1].packed.bundle = 0 /\ dbs[1].loose = "ok"
    /\ dbs[2].packed.bundle = 2
    /\ located = LocationOf(2, 2)

C24_SharedStep ==
    /\ dbs' = dbs
    /\ \A t \in Threads :
        /\ (workers[t].result.tag = "Uncalled" /\ workers'[t].result.tag # "Uncalled") =>
               workers'[t].result = ReturnFrom(workers[t].op, dbs, 1)
        /\ (workers[t].op = "find" /\ workers[t].result.tag = "Some"
            /\ workers'[t].op = "idle") =>
               bufs[BufferOf(t)] = [by |-> t, op |-> "find"]

C25_TooSmallIsCorrupt ==
    (index # Unopened /\ Len(data) < 1064) => index = [tag |-> "Corrupt"]

\* C25 witness: a file of 1063 bytes that starts with the V2 signature and
\* version 2 was refused as corrupt.
C25_Witness ==
    /\ index = [tag |-> "Corrupt"]
    /\ Len(data) = 1063
    /\ SubSeq(data, 1, 8) = <<255, 116, 79, 99, 0, 0, 0, 2>>

\* The big-endian u32 at byte offset `from` of the file.
WordAt(from) == U32(SubSeq(data, from + 1, from + 4))

\* C26: a file of sufficient size that starts with the V2 signature is kind
\* V2, accepted only if the next big-endian u32 is 2 and refused with
\* UnsupportedVersion(v) otherwise; any other file of sufficient size is kind
\* V1, version 1, fan table from byte 0; num_objects is the 256th fan entry.
C26_FormatDetection ==
    (index # Unopened /\ Len(data) >= 1064) =>
        IF SubSeq(data, 1, 4) = <<255, 116, 79, 99>>
        THEN IF WordAt(4) = 2
             THEN /\ index.tag = "Ok" /\ index.kind = "V2" /\ index.version = 2
                  /\ \A i \in 1..256 : index.fan[i] = WordAt(8 + 4 * (i - 1))
                  /\ index.num_objects = WordAt(8 + 4 * 255)
             ELSE index = [tag |-> "UnsupportedVersion", version |-> WordAt(4)]
        ELSE /\ index.tag = "Ok" /\ index.kind = "V1" /\ index.version = 1
             /\ \A i \in 1..256 : index.fan[i] = WordAt(4 * (i - 1))
             /\ index.num_objects = WordAt(4 * 255)

\* C26 witness: a V2 file with objects whose version word is 3 was refused
\* with UnsupportedVersion(3).
C26_Witness ==
    /\ index = [tag |-> "UnsupportedVersion", version |-> 3]
    /\ Len(made.keys) >= 1

\* C27: every File that File::at returns has a non-decreasing fan table.
C27_FanNonDecreasing ==
    index.tag = "Ok" => \A i \in 1..255 : index.fan[i] <= index.fan[i + 1]

\* The files the encoder wrote whole and with the fan table of their oids.
Written == made.damage = "none"

\* C28: in a V2 file every entry's offset is the stored 32-bit word when its
\* top bit is clear, and otherwise the 64-bit value at the position the other
\* 31 bits give in the large-offset table, so that every encoded offset, also
\* one of 2^31 or more, is returned unchanged.
C28_OffsetResolution ==
    (index.tag = "Ok" /\ index.kind = "V2" /\ Written /\ iterated # NotIterated) =>
        /\ iterated.tag = "entries"
        /\ \A i \in DOMAIN iterated.entries :
            LET w == SubSeq(data, offset_pack_offset_v2(index) + 4 * (i - 1) + 1,
                            offset_pack_offset_v2(index) + 4 * i)
                e == iterated.entries[i]
            IN  /\ w[1] < 128 => e.offset = <<0, 0, 0, 0>> \o w
                /\ w[1] >= 128 =>
                       LET at64 == offset_pack_offset64_v2(index) + 8 * w[4]
                       IN  /\ w = <<128, 0, 0, LargeBefore(made, i)>>
                           /\ e.offset = SubSeq(data, at64 + 1, at64 + 8)
                /\ e.offset = OffsetOf("V2", made.offsets[i], i)

\* C28 witness: a V2 file was iterated whose first entry has the offset 2^31
\* and whose second entry has an offset above 2^32, read from position 1 of
\* the large-offset table.
C28_Witness ==
    /\ index.tag = "Ok" /\ index.kind = "V2" /\ Written
    /\ iterated.tag = "entries" /\ Len(iterated.entries) >= 2
    /\ iterated.entries[1].offset = <<0, 0, 0, 0, 128, 0, 0, 0>>
    /\ iterated.entries[2].offset = <<0, 0, 0, 1, 128, 0, 0, 1>>

\* The order of object ids: bytewise, the first difference decides.
OidLess(a, b) ==
    \E i \in 1..20 : a[i] < b[i] /\ \A j \in 1..(i - 1) : a[j] = b[j]

\* C29: iterating a valid V1 or V2 file of N objects returns exactly N
\* entries in stored order, strictly increasing by oid, the i-th pairing the
\* i-th oid with the i-th offset and (V2) the i-th CRC32 or (V1) None; a
\* second iteration returns the same sequence.
C29_IterYieldsStoredEntries ==
    (index.tag = "Ok" /\ Written /\ iterated # NotIterated) =>
        /\ iterated.tag = "entries"
        /\ Len(iterated.entries) = Len(made.keys)
        /\ index.num_objects = Len(made.keys)
        /\ \A i \in DOMAIN iterated.entries :
            iterated.entries[i] =
                [oid |-> OidOf(made.keys[i]),
                 offset |-> OffsetOf(made.kind, made.offsets[i], i),
                 crc32 |-> IF made.kind = "V1" THEN -1
                           ELSE U32(CrcBytes(made.keys[i]))]
        /\ \A i \in 1..(Len(iterated.entries) - 1) :
            OidLess(iterated.entries[i].oid, iterated.entries[i + 1].oid)
        /\ again # NotIterated => again = iterated

\* C29 witness: a valid V1 file of two objects or more was iterated twice.
C29_Witness ==
    /\ index.tag = "Ok" /\ index.kind = "V1" /\ Written
    /\ again.tag = "entries" /\ Len(again.entries) >= 2

\* C30: iterating all entries of a file that File::at accepted completes
\* without a panic or out-of-bounds read.
C30_IterNeverPanics == iterated # Panic

\* The ids of the items next() has returned, Ok or Err.
ReturnedIds == {out[i].oid : i \in 1..Len(out)}

\* C31: in every state of a traversal, in both sorting modes, every pending id
\* is in seen, no id is pending twice, every id already returned is in seen
\* and no id already returned is pending.
C31_PendingSeenReturned ==
    /\ Range(state.next) \subseteq state.seen
    /\ Cardinality(Range(state.next)) = Len(state.next)
    /\ ReturnedIds \subseteq state.seen
    /\ ReturnedIds \cap Range(state.next) = {}

\* C31 witness: a ByCommitterDate traversal that returned a commit naming
\* itself and an earlier returned id as parents still has two ids pending.
C31_Witness ==
    /\ sorting = "ByCommitterDate" /\ stage = "iter"
    /\ Len(state.next) >= 2
    /\ \E i \in 1..Len(out) :
        /\ out[i].tag = "Ok"
        /\ out[i].oid \in Range(commits[out[i].oid].parents)

\* The distinct ids among the tips and the parents of the commits decoded.
DistinctIds ==
    Range(tips) \cup UNION {Range(commits[i].parents) : i \in DOMAIN commits}

\* Some decoded commit is its own ancestor.
HasCycle ==
    \E i \in Expanded : i \in ReachFrom(Range(commits[i].parents))

\* C32: a traversal returns at most as many items as there are distinct ids
\* among tips and parents, also when the parent relation has a cycle, and
\* repeated next() calls eventually return None.
C32_FiniteSequence ==
    /\ [](Len(out) <= Cardinality(DistinctIds))
    /\ (stage = "iter") ~> (last = NoItem)

\* C32 witness: a traversal over a graph with a cycle returned every id once
\* and then None.
C32_Witness ==
    /\ Drained /\ HasCycle
    /\ Len(out) >= 2
    /\ Len(out) = Cardinality(DistinctIds)

\* C33, one call: a next() that returns Err(NotFound{oid}) removes oid, the
\* front of the pending queue, and changes nothing else of pending and seen;
\* the call after an Err(NotFound) returns the id then at the front.
C33_NotFoundStep ==
    /\ (Returned /\ last'.tag = "NotFound") =>
           /\ state.next # <<>>
           /\ last'.oid = Head(state.next)
           /\ state'.next = Tail(state.next)
           /\ state'.seen = state.seen
           /\ last'.oid \in state'.seen
    /\ (NextCalled /\ last.tag = "NotFound" /\ state.next # <<>>) =>
           /\ Returned
           /\ last'.oid = Head(state.next)
           /\ IsPrefix(Tail(state.next), state'.next)

\* C33: an Err(NotFound) item does not drain or reset the traversal, in both
\* sorting modes: only the id it reports leaves the pending queue, seen stays
\* as it is, and the next calls return the remaining pending ids in FIFO order.
C33_ErrKeepsTraversal == [][C33_NotFoundStep]_vars

\* C33 witness: after an Err(NotFound) for the first of three pending ids the
\* traversal returned the other two, in the order they were pending.
C33_Witness ==
    /\ Len(tips) >= 3 /\ Len(out) >= 3
    /\ out[1] = NotFound(tips[1])
    /\ out[2].oid = tips[2] /\ out[2].tag = "Ok"
    /\ out[3].oid = tips[3]

\* The Ok ids of a sequence of items.
OkIdsOf(items) == {items[i].oid : i \in {j \in 1..Len(items) : items[j].tag = "Ok"}}

ErrsOf(items) == {i \in 1..Len(items) : items[i].tag # "Ok"}

\* Every commit the two traversals asked for is present and decodes, and
\* every parent asked for its committer date has one.
CompleteAndDated ==
    /\ absent = {}
    /\ \A i \in DOMAIN commits : commits[i].tree /\ ~commits[i].perr
    /\ \A i \in DOMAIN dates : dates[i] >= 1

\* Both traversals ran to their end, with the same tips, Parents mode and
\* predicate, one in each sorting.
BothDrained ==
    /\ first.set /\ first.done /\ Drained
    /\ tips = first.tips /\ mode = first.mode /\ sorting # first.sorting

\* C34: for the same tips, Parents mode and predicate, on a graph in which
\* every reachable commit is present and has a committer date, GraphOrder and
\* ByCommitterDate return the same set of ids and neither returns an Err.
C34_SameSetBothSortings ==
    (BothDrained /\ CompleteAndDated) =>
        /\ OkIdsOf(out) = OkIdsOf(first.out)
        /\ Len(out) = Len(first.out)
        /\ ErrsOf(out) = {} /\ ErrsOf(first.out) = {}

\* C34 witness: the two sortings returned the same three ids in different
\* orders.
C34_Witness ==
    /\ BothDrained /\ CompleteAndDated
    /\ Len(out) = 3 /\ out # first.out
    /\ OkIdsOf(out) = OkIdsOf(first.out)

\* The step is an attempt of publish_crate that runs `cargo publish`.
Attempted == pc = "publish" /\ ~options.dry_run /\ events' # events

\* What the attempts of the publish_crate call under way did, the one of this
\* step included.
AttemptsNow == SubSeq(events', Len(events') - attempt + 1, Len(events'))

AllFailed(as) == \A i \in 1..Len(as) : as[i].what = "failure"

\* C35 but for when an error is returned: an attempt is one of at most 3; all
\* attempts before it failed; it is the last one if it succeeds, and then
\* publish_crate returns Ok and the tag is next; no attempt follows the third.
C35_AttemptStep ==
    Attempted =>
        /\ attempt \in 1..3
        /\ Len(AttemptsNow) = attempt
        /\ AllFailed(SubSeq(AttemptsNow, 1, attempt - 1))
        /\ \A i \in 1..attempt : AttemptsNow[i].crate = Head(remaining) /\ AttemptsNow[i].real
        /\ AttemptsNow[attempt].what = "success" <=> pc' = "tag"
        /\ pc' = "tag" => result' = "none"
        /\ pc' = "publish" => attempt' = attempt + 1 /\ attempt < 3

\* C35 as claimed: publish_crate without dry_run runs `cargo publish` 1 to 3
\* times, stops at the first success and returns Ok, and returns an error
\* exactly when all 3 runs failed.
C35_ErrorIffThreeFailed ==
    [][C35_AttemptStep
       /\ (Attempted => (result' = "Err" <=> attempt = 3 /\ AllFailed(AttemptsNow)))]_vars

\* C35 amended: publish_crate without dry_run runs `cargo publish` 1 to 3
\* times, stops at the first success and returns Ok, and returns an error
\* exactly when all 3 runs failed with an exit status or when a run could not
\* be executed (c.status() is an Err), which ends the attempts at once.
C35_ErrorIffThreeFailedOrIo ==
    [][C35_AttemptStep
       /\ (Attempted =>
              (result' = "Err" <=> \/ attempt = 3 /\ AllFailed(AttemptsNow)
                                   \/ AttemptsNow[attempt].what = "io"))]_vars

\* C35 witness: three runs of `cargo publish` failed and the release returned
\* an error.
C35_Witness ==
    /\ ~options.dry_run /\ result = "Err" /\ attempt = 3
    /\ Len(events) >= 3
    /\ AllFailed(SubSeq(events, Len(events) - 2, Len(events)))

\* The events of position j..k of the log are the release of crate c up to
\* its tag: manifests, commit, failed publish runs, a successful one, the tag.
ReleasedAt(j, k, c) ==
    /\ k - j \in 3..5
    /\ events[j] = Event("manifests", c, TRUE)
    /\ events[j + 1] = Event("commit", c, TRUE)
    /\ \A i \in (j + 2)..(k - 2) : events[i] = Event("failure", c, TRUE)
    /\ events[k - 1] = Event("success", c, TRUE)
    /\ events[k] = Event("tag", c, TRUE)

\* C36 (order): every tag follows a successful publish of its crate, which
\* follows the commit of its manifest changes; every run of `cargo publish`
\* follows that commit with only failed runs in between.
C36_Order ==
    ~options.dry_run =>
        \A k \in 1..Len(events) :
            /\ events[k].what = "tag" =>
                   \E j \in 1..k : ReleasedAt(j, k, events[k].crate)
            /\ events[k].what \in {"success", "failure", "io"} =>
                   \E j \in 1..(k - 1) :
                       /\ events[j] = Event("commit", events[k].crate, TRUE)
                       /\ \A i \in (j + 1)..(k - 1) :
                              events[i] = Event("failure", events[k].crate, TRUE)

\* C36 (failure): a publish that fails for good ends release_depth_first
\* with an error: no tag for the crate and nothing for any later crate.
C36_FailureStep ==
    /\ (Attempted /\ pc' # "tag" /\ pc' # "publish") => result' = "Err" /\ pc' = "done"
    /\ result = "Err" => UNCHANGED vars

\* C36: without dry_run each released crate goes through: manifest changes
\* committed, `cargo publish`, tag; the tag only after publish succeeded; when
\* publish fails after all attempts there is no tag for the crate and no later
\* crate is released.
C36_CommitPublishTag == [][C36_FailureStep]_vars /\ []C36_Order

\* C36 witness: the first crate was released and tagged after a failed run,
\* the publish of the second failed three times and the release ended there.
C36_Witness ==
    /\ ~options.dry_run /\ result = "Err"
    /\ Len(processed) = 2 /\ Len(names_to_publish) >= 3
    /\ ReleasedAt(1, 5, processed[1])
    /\ Len(events) = 10
    /\ AllFailed(SubSeq(events, 8, 10))

\* The log of a dry run over the crates cs: for each, either the skip or the
\* three steps of its release, none of them real.
RECURSIVE DryLog(_, _)
DryLog(es, cs) ==
    IF cs = <<>> THEN es = <<>>
    ELSE \/ /\ Len(es) >= 1
            /\ es[1] = Event("skipped", Head(cs), FALSE)
            /\ DryLog(Tail(es), Tail(cs))
         \/ /\ Len(es) >= 3
            /\ es[1] = Event("commit", Head(cs), FALSE)
            /\ es[2] = Event("publish", Head(cs), FALSE)
            /\ es[3] = Event("tag", Head(cs), FALSE)
            /\ DryLog(SubSeq(es, 4, Len(es)), Tail(cs))

\* C37: with dry_run nothing is done for any crate: no manifest lock is
\* committed, no git commit made, `cargo publish` never run, no tag created;
\* each step of each release is logged.
C37_DryRunOnlyLogs ==
    options.dry_run =>
        /\ \A k \in 1..Len(events) : ~events[k].real
        /\ \A k \in 1..Len(events) :
               events[k].what \notin {"manifests", "success", "failure", "io"}
        /\ result = "Ok" => DryLog(events, processed)

\* C37 witness: a dry run over two crates or more ended with the steps of a
\* release logged.
C37_Witness ==
    /\ options.dry_run /\ result = "Ok"
    /\ Len(processed) >= 2
    /\ \E k \in 1..Len(events) : events[k] = Event("tag", processed[2], FALSE)

\* The workspace members that package c lists as normal dependencies and that
\* are in the list of crates to publish.
MemberDependencies(c) ==
    {d \in Range(NormalNames(packages[c])) \ {c} :
        d \in seen \/ (d \in DOMAIN members /\ members[d] /\ d \in Range(names_to_publish))}

\* No package looked up depends on itself over normal dependencies.
RECURSIVE DependsOn(_, _)
DependsOn(S, n) ==
    IF n = 0 THEN S
    ELSE DependsOn(S \cup UNION {Range(NormalNames(packages[c])) : c \in S \cap DOMAIN packages},
                   n - 1)

Acyclic ==
    \A c \in DOMAIN packages :
        c \notin DependsOn(Range(NormalNames(packages[c])), MaxCrateInput)

\* C38: every crate is processed only after all its workspace-member normal
\* dependencies in the release list have been processed (checked on
\* workspaces without dependency cycles).
C38_DependenciesFirst ==
    Acyclic =>
        \A k \in 1..Len(processed) :
            \A d \in MemberDependencies(processed[k]) :
                \E j \in 1..(k - 1) : processed[j] = d

\* C39: the list of crates to publish holds each crate name at most once, also
\* when a requested crate is a dependency of another requested crate (checked
\* on requests that name no crate twice and workspaces without cycles).
C39_EachCrateOnce ==
    (Acyclic /\ Cardinality(Range(crate_names)) = Len(crate_names)) =>
        Cardinality(Range(names_to_publish)) = Len(names_to_publish)

\* Writing object f fails, or verifying it was requested and fails.
WriteOrVerifyFails(f) ==
    \/ f.write = "err"
    \/ context.verify /\ context.object_path = "dir" /\ f.check # "ok"

====
